---- MODULE Spec2Model ----
(***************************************************************************)
(* GoCask storage engine (src/internal/bitcask.go, src/internal/aof.go).   *)
(*                                                                         *)
(* Segment files are modelled as byte sequences; records are encoded and   *)
(* decoded byte by byte with the layout of aof.go (21-byte big-endian      *)
(* header, then key, then value).  The engine state is the BitCask struct, *)
(* the operating system state is the directory content, the durable        *)
(* (fsynced) length of every file and the set of open file handles.        *)
(***************************************************************************)
EXTENDS Integers, Sequences, FiniteSets, TLC

\* ------------------------------------------------------------------ bounds
\* Highest segment id the model lets a rotation create.
MaxFileId == 2
\* Number of Put and Delete calls the model follows.
MaxMutations == 3
\* A failed write or a crash tears the bytes not yet fsynced at a multiple
\* of this many bytes.
TearStep == 11
\* Number of crash/close-and-reopen cycles the model follows.
MaxRestarts == 1
\* Largest timestamp time.Now() is drawn from.
MaxTimestamp == 0

\* ------------------------------------------------------- program constants
\* Rotation threshold; 128 MiB in the source, scaled down so that rotation
\* happens after one or two records.
MaxActiveFileSize == 46
\* 4 + 8 + 4 + 4 + 1
logEntryHeaderSize == 21
\* bufio.NewWriterSize(file, 64*1024)
BufferSize == 65536

Nil == "nil"

\* F applied to the value of v, computed once
With(v, F(_)) == CHOOSE r \in {F(x) : x \in {v}} : TRUE
NotFound == "key not found"

Keys == { <<1>>, <<2>> }
Values == { <<>>, <<7>> }
Timestamps == 0..MaxTimestamp

\* --------------------------------------------------------------- the codec
RECURSIVE BigEndian(_, _)
\* binary.Write(w, binary.BigEndian, n) for an n of `width` bytes
BigEndian(n, width) ==
    IF width = 0 THEN <<>>
    ELSE Append(BigEndian(n \div 256, width - 1), n % 256)

RECURSIVE FromBigEndian(_, _, _)
\* binary.Read(r, binary.BigEndian, &n) of the bytes first..last
FromBigEndian(bytes, first, last) ==
    IF last < first THEN 0
    ELSE FromBigEndian(bytes, first, last - 1) * 256 + bytes[last]

BoolByte(b) == IF b THEN <<1>> ELSE <<0>>

RECURSIVE SumBytes(_, _)
\* the sum of the first n bytes
SumBytes(bytes, n) ==
    IF n = 0 THEN 0 ELSE bytes[n] + SumBytes(bytes, n - 1)

\* The checksum of aof.go (CRC-32 Castagnoli), abstracted to a checksum of
\* the same input bytes that fits the four bytes of the field.
calcCRC(data) == (SumBytes(data, Len(data)) * 31 + Len(data)) % 65521

\* NewLogEntry(key, value, tombstone), with the clock reading as a parameter
NewLogEntry(key, value, tombstone, timestamp) ==
    LET keySize == Len(key)
        valueSize == Len(value)
    IN With(BigEndian(timestamp, 8) \o BigEndian(keySize, 4)
            \o BigEndian(valueSize, 4) \o BoolByte(tombstone) \o key \o value,
            LAMBDA data :
               [crc |-> calcCRC(data), timestamp |-> timestamp, keySize |-> keySize,
                valueSize |-> valueSize, tombstone |-> tombstone,
                Key |-> key, Value |-> value])

\* LogEntry.Size
Size(e) == 4 + 8 + 4 + 4 + 1 + Len(e.Key) + Len(e.Value)

\* LogEntry.IsDeleted
IsDeleted(e) == e.tombstone

\* The bytes writeLogEntry / writeLogEntryBuffered hand to the writer.
EncodeEntry(e) ==
    BigEndian(e.crc, 4) \o BigEndian(e.timestamp, 8) \o BigEndian(e.keySize, 4)
    \o BigEndian(e.valueSize, 4) \o BoolByte(e.tombstone) \o e.Key \o e.Value

\* The five header fields read by binary.Read from a 21-byte header.
DecodeHeader(h) ==
    [crc |-> FromBigEndian(h, 1, 4),
     timestamp |-> FromBigEndian(h, 5, 12),
     keySize |-> FromBigEndian(h, 13, 16),
     valueSize |-> FromBigEndian(h, 17, 20),
     tombstone |-> h[21] # 0]

\* readLogEntry(file, offset, size): one positional read of `size` bytes of
\* `bytes` at `offset`, then the decode of readLogEntryWithSize.
readLogEntry(bytes, offset, size) ==
    IF size < logEntryHeaderSize THEN [err |-> "unexpected EOF"]
    ELSE IF offset >= Len(bytes) THEN [err |-> "EOF"]
    ELSE IF offset + size > Len(bytes) THEN [err |-> "unexpected EOF"]
    ELSE With(SubSeq(bytes, offset + 1, offset + size), LAMBDA buf :
         With(DecodeHeader(SubSeq(buf, 1, logEntryHeaderSize)), LAMBDA h :
            LET expected == logEntryHeaderSize + h.keySize + h.valueSize
            IN IF Len(buf) < expected THEN [err |-> "unexpected EOF"]
               ELSE [err |-> Nil,
                     entry |-> [crc |-> h.crc, timestamp |-> h.timestamp,
                                keySize |-> h.keySize, valueSize |-> h.valueSize,
                                tombstone |-> h.tombstone,
                                Key |-> SubSeq(buf, logEntryHeaderSize + 1,
                                               logEntryHeaderSize + h.keySize),
                                Value |-> SubSeq(buf,
                                                 logEntryHeaderSize + h.keySize + 1,
                                                 expected)]]))

\* parseEntry(file): the next record of a sequential read that stands at
\* `pos`; io.EOF when no byte is left, io.ErrUnexpectedEOF when the header
\* or the declared key and value are cut short.
parseEntry(bytes, pos) ==
    LET left == Len(bytes) - pos
    IN IF left <= 0 THEN [err |-> "EOF"]
       ELSE IF left < logEntryHeaderSize THEN [err |-> "unexpected EOF"]
       ELSE With(DecodeHeader(SubSeq(bytes, pos + 1, pos + logEntryHeaderSize)),
                 LAMBDA h :
            LET size == logEntryHeaderSize + h.keySize + h.valueSize
            IN IF left < size THEN [err |-> "unexpected EOF"]
               ELSE [err |-> Nil, size |-> size,
                     entry |-> [crc |-> h.crc, timestamp |-> h.timestamp,
                                keySize |-> h.keySize, valueSize |-> h.valueSize,
                                tombstone |-> h.tombstone,
                                Key |-> SubSeq(bytes, pos + logEntryHeaderSize + 1,
                                               pos + logEntryHeaderSize + h.keySize),
                                Value |-> SubSeq(bytes,
                                                 pos + logEntryHeaderSize + h.keySize + 1,
                                                 pos + size)]])


\* ------------------------------------------------------------------- state
VARIABLES
    disk,           \* the directory: segment id -> bytes of NNNNNN.log
    synced,         \* segment id -> length of the prefix that survives a crash
    fds,            \* the open os.File handles, <<segment id, mode>>
    KeyDir,         \* bc.KeyDir: key -> ValuePointer
    Files,          \* bc.Files: segment id -> handle
    CurrentFileId,  \* bc.CurrentFileId
    ActiveFile,     \* bc.ActiveFile, NilFile when nil
    ActiveSize,     \* bc.ActiveSize
    writer,         \* bc.writer: the bufio.Writer, its target, bytes and error
    done,           \* bc.done has been closed
    bg,             \* the goroutine of startBackgroundSync
    phase,          \* "open": Open returned an engine; "closed": Close
                    \* returned; "down": the process crashed
    restarts,       \* reopen cycles so far
    mutations,      \* Put and Delete calls so far
    last,           \* the last call and what it returned
    expect,         \* key -> value the calls of this session left, or Absent
    clean,          \* a Sync succeeded and no mutation followed it
    durable,        \* key -> value as of the last completed Sync or tick
    later,          \* key -> values written since that Sync or tick
    Mu,             \* bc.Mu: the goroutine holding the write lock, the readers
    calls,          \* goroutine -> the call it is in and how far it got
    commits,        \* the mutations goroutines made, in the order they took effect
    appended,       \* bytes of the records the successful Put and Delete calls wrote
    listing,        \* a directory listing handed to the replay order of LoadFiles
    bgs             \* the ticker of the background goroutine and what its passes did

os == <<disk, synced, fds>>
engine == <<KeyDir, Files, CurrentFileId, ActiveFile, ActiveSize, writer>>
ghost == <<last, expect, clean, durable, later>>
vars == <<disk, synced, fds, KeyDir, Files, CurrentFileId, ActiveFile, ActiveSize,
          writer, done, bg, phase, restarts, mutations, last, expect, clean, durable, later,
          Mu, calls, commits, appended, listing, bgs>>
conc == <<Mu, calls, commits>>
\* ticker.C is empty, no pass has taken the lock, none ran after close(bc.done)
NoBg == [tick |-> FALSE, id |-> 0, mark |-> 0, late |-> 0, stops |-> 0]
NoListing == [names |-> {}, order |-> <<>>, opened |-> FALSE, done |-> FALSE]

Threads == {"t1", "t2"}
Unlocked == [writer |-> "none", readers |-> {}]
Idle == [pc |-> "idle", op |-> "none", key |-> <<>>, value |-> <<>>,
         timestamp |-> 0, err |-> Nil, got |-> <<>>, from |-> 0, at |-> 0]

NilFile == <<0, "nil">>
Absent == <<-1>>
EmptyMap == [x \in {} |-> 0]

\* The engine and the files it works on, as one value the operations map.
World ==
    [disk |-> disk, synced |-> synced, fds |-> fds, KeyDir |-> KeyDir,
     Files |-> Files, CurrentFileId |-> CurrentFileId, ActiveFile |-> ActiveFile,
     ActiveSize |-> ActiveSize, writer |-> writer]

Install(w) ==
    /\ disk' = w.disk
    /\ synced' = w.synced
    /\ fds' = w.fds
    /\ KeyDir' = w.KeyDir
    /\ Files' = w.Files
    /\ CurrentFileId' = w.CurrentFileId
    /\ ActiveFile' = w.ActiveFile
    /\ ActiveSize' = w.ActiveSize
    /\ writer' = w.writer

\* f with x mapped to v, x added to the domain when missing (a Go map store)
Store(f, x, v) == [y \in DOMAIN f \cup {x} |-> IF y = x THEN v ELSE f[y]]
\* delete(f, x)
Remove(f, x) == [y \in DOMAIN f \ {x} |-> f[y]]

SetMax(S) == IF S = {} THEN 0 ELSE CHOOSE m \in S : \A x \in S : x <= m

\* bufio.NewWriterSize(file, 64*1024)
NewWriter(file) == [file |-> file, buf |-> <<>>, err |-> FALSE]

\* os.File.Write on a handle opened with O_APPEND
FileWrite(w, file, bytes) ==
    IF file \notin w.fds THEN [w |-> w, err |-> "file already closed"]
    ELSE [w |-> [w EXCEPT !.disk[file[1]] = @ \o bytes], err |-> Nil]

\* os.File.Sync
FileSync(w, file) ==
    IF file \notin w.fds THEN [w |-> w, err |-> "file already closed"]
    ELSE [w |-> [w EXCEPT !.synced[file[1]] = Len(w.disk[file[1]])], err |-> Nil]

\* bufio.Writer.Flush; `wrote` < 0 lets the write through, otherwise the
\* write to the file fails after `wrote` bytes and the error sticks.
Flush(w, wrote) ==
    IF w.writer.err THEN [w |-> w, err |-> "write error"]
    ELSE IF w.writer.buf = <<>> THEN [w |-> w, err |-> Nil]
    ELSE IF wrote >= 0 /\ wrote < Len(w.writer.buf)
    THEN With(FileWrite(w, w.writer.file, SubSeq(w.writer.buf, 1, wrote)), LAMBDA r :
            [w |-> [r.w EXCEPT !.writer.buf = SubSeq(@, wrote + 1, Len(@)),
                               !.writer.err = TRUE],
             err |-> "write error"])
    ELSE With(FileWrite(w, w.writer.file, w.writer.buf), LAMBDA r :
            IF r.err # Nil
            THEN [w |-> [w EXCEPT !.writer.err = TRUE], err |-> r.err]
            ELSE [w |-> [r.w EXCEPT !.writer.buf = <<>>], err |-> Nil])

\* bufio.Writer.Write: bytes that do not fit the buffer force a flush first.
BufWrite(w, bytes) ==
    IF w.writer.err THEN [w |-> w, n |-> 0, err |-> "write error"]
    ELSE IF Len(w.writer.buf) + Len(bytes) <= BufferSize
    THEN [w |-> [w EXCEPT !.writer.buf = @ \o bytes], n |-> Len(bytes), err |-> Nil]
    ELSE With(Flush(w, -1), LAMBDA r :
            IF r.err # Nil THEN [w |-> r.w, n |-> 0, err |-> r.err]
            ELSE [w |-> [r.w EXCEPT !.writer.buf = bytes],
                  n |-> Len(bytes), err |-> Nil])

\* writeLogEntryBuffered(bc.writer, entry)
writeLogEntryBuffered(w, entry) ==
    With(EncodeEntry(entry), LAMBDA bytes : BufWrite(w, bytes))


\* -------------------------------------------------------------- the engine
Ok(w) == [w |-> w, err |-> Nil]

\* RollSeal without bc.ActiveFile.Close()
RollSeal_NoClose(w) ==
    IF w.ActiveFile # NilFile
    THEN [w EXCEPT !.synced[w.CurrentFileId] = Len(w.disk[w.CurrentFileId])]
    ELSE w

\* BitCask.RollNewFile, its first half: ActiveFile.Sync and
\* ActiveFile.Close; the bytes bc.writer still holds are not written
RollSeal(w) ==
    IF w.ActiveFile # NilFile
    THEN [w EXCEPT !.synced[w.CurrentFileId] = Len(w.disk[w.CurrentFileId]),
                   !.fds = @ \ {w.ActiveFile}]
    ELSE w

\* RollOpen without bc.Files[newId] = file
RollOpen_DropsHandle(w) ==
    LET oldFileId == w.CurrentFileId
        readFile == <<oldFileId, "r">>
        newId == w.CurrentFileId + 1
        file == <<newId, "w">>
        created == newId \notin DOMAIN w.disk
    IN With(IF w.ActiveFile # NilFile
            THEN [w EXCEPT !.fds = @ \cup {readFile},
                           !.Files = Store(@, oldFileId, readFile)]
            ELSE w,
            LAMBDA w1 :
               Ok([w1 EXCEPT !.disk = IF created THEN Store(@, newId, <<>>) ELSE @,
                             !.synced = IF created THEN Store(@, newId, 0) ELSE @,
                             !.fds = @ \cup {file},
                             !.CurrentFileId = newId,
                             !.ActiveFile = file,
                             !.ActiveSize = 0,
                             !.writer = NewWriter(file)]))

\* RollOpen without bc.CurrentFileId = newId
RollOpen_KeepsId(w) ==
    LET oldFileId == w.CurrentFileId
        readFile == <<oldFileId, "r">>
        newId == w.CurrentFileId + 1
        file == <<newId, "w">>
        \* os.OpenFile(filePath, O_CREATE|O_RDWR|O_APPEND)
        created == newId \notin DOMAIN w.disk
    IN With(IF w.ActiveFile # NilFile
            THEN [w EXCEPT !.fds = @ \cup {readFile},
                           !.Files = Store(@, oldFileId, readFile)]
            ELSE w,
            LAMBDA w1 :
               Ok([w1 EXCEPT !.disk = IF created THEN Store(@, newId, <<>>) ELSE @,
                             !.synced = IF created THEN Store(@, newId, 0) ELSE @,
                             !.fds = @ \cup {file},
                             !.ActiveFile = file,
                             !.ActiveSize = 0,
                             !.Files = Store(@, newId, file),
                             !.writer = NewWriter(file)]))

\* BitCask.RollNewFile, its second half: the old segment reopened
\* read-only, the new one created and made the active one
RollOpen(w) ==
    LET oldFileId == w.CurrentFileId
        readFile == <<oldFileId, "r">>
        newId == w.CurrentFileId + 1
        file == <<newId, "w">>
        \* os.OpenFile(filePath, O_CREATE|O_RDWR|O_APPEND)
        created == newId \notin DOMAIN w.disk
    IN With(IF w.ActiveFile # NilFile
            THEN [w EXCEPT !.fds = @ \cup {readFile},
                           !.Files = Store(@, oldFileId, readFile)]
            ELSE w,
            LAMBDA w1 :
               Ok([w1 EXCEPT !.disk = IF created THEN Store(@, newId, <<>>) ELSE @,
                             !.synced = IF created THEN Store(@, newId, 0) ELSE @,
                             !.fds = @ \cup {file},
                             !.CurrentFileId = newId,
                             !.ActiveFile = file,
                             !.ActiveSize = 0,
                             !.Files = Store(@, newId, file),
                             !.writer = NewWriter(file)]))

\* BitCask.RollNewFile; ActiveFile.Sync on a closed handle returns an error
RollNewFile(w) ==
    IF w.ActiveFile # NilFile /\ w.ActiveFile \notin w.fds
    THEN [w |-> w, err |-> "file already closed"]
    ELSE With(RollSeal(w), LAMBDA sealed : RollOpen(sealed))

\* ScanEnds as it was when only io.EOF ended the scan
ScanEnds_EofOnly(err) == err = "EOF"

\* the errors of parseEntry that end the scan of a segment without failing it
ScanEnds(err) == err = "EOF" \/ err = "unexpected EOF"

\* applyEntry without the tombstone branch
applyEntry_IgnoresTombstone(keyDir, entry, fileId, offset, size) ==
    IF IsDeleted(entry) THEN keyDir
    ELSE Store(keyDir, entry.Key, [FileId |-> fileId, Offset |-> offset, Size |-> size])

\* applyEntry taking a record without value for a deletion
applyEntry_ByValueLength(keyDir, entry, fileId, offset, size) ==
    IF entry.valueSize = 0 THEN Remove(keyDir, entry.Key)
    ELSE Store(keyDir, entry.Key, [FileId |-> fileId, Offset |-> offset, Size |-> size])

\* what rebuildKeyDirFromFile does with one decoded record
applyEntry(keyDir, entry, fileId, offset, size) ==
    IF IsDeleted(entry) THEN Remove(keyDir, entry.Key)
    ELSE Store(keyDir, entry.Key, [FileId |-> fileId, Offset |-> offset, Size |-> size])

RECURSIVE rebuildScan_ByTimestamp(_, _, _, _)
\* rebuildScan keeping, of two records of a key in one segment, the one with
\* the later timestamp
rebuildScan_ByTimestamp(keyDir, bytes, fileId, offset) ==
    With(parseEntry(bytes, offset), LAMBDA p :
        IF p.err # Nil
        THEN [KeyDir |-> keyDir, err |-> IF ScanEnds(p.err) THEN Nil ELSE p.err]
        ELSE With(IF /\ p.entry.Key \in DOMAIN keyDir
                     /\ keyDir[p.entry.Key].FileId = fileId
                     /\ parseEntry(bytes, keyDir[p.entry.Key].Offset).entry.timestamp
                           > p.entry.timestamp
                  THEN keyDir
                  ELSE applyEntry(keyDir, p.entry, fileId, offset, p.size),
                  LAMBDA next :
                     rebuildScan_ByTimestamp(next, bytes, fileId, offset + p.size)))

RECURSIVE rebuildScan(_, _, _, _)
\* the loop of rebuildKeyDirFromFile, standing at `offset`
rebuildScan(keyDir, bytes, fileId, offset) ==
    With(parseEntry(bytes, offset), LAMBDA p :
        IF p.err # Nil
        THEN [KeyDir |-> keyDir, err |-> IF ScanEnds(p.err) THEN Nil ELSE p.err]
        ELSE With(applyEntry(keyDir, p.entry, fileId, offset, p.size),
                  LAMBDA next : rebuildScan(next, bytes, fileId, offset + p.size)))

\* BitCask.rebuildKeyDirFromFile
rebuildKeyDirFromFile(keyDir, bytes, fileId) == rebuildScan(keyDir, bytes, fileId, 0)

RECURSIVE Ascending(_)
Ascending(S) ==
    IF S = {} THEN <<>>
    ELSE LET m == CHOOSE x \in S : \A y \in S : x <= y
         IN <<m>> \o Ascending(S \ {m})

\* filepath.Glob(dir/*.log): the names sorted; the six-digit names the
\* engine creates sort as their ids do.
Glob(w) == Ascending(DOMAIN w.disk)

RECURSIVE LoadScan(_, _, _)
\* the loop of LoadFiles, at the i-th of the files
LoadScan(w, files, i) ==
    IF i > Len(files) THEN Ok(w)
    ELSE With(rebuildKeyDirFromFile(w.KeyDir, w.disk[files[i]], files[i]), LAMBDA r :
         With([w EXCEPT !.fds = @ \cup {<<files[i], "r">>},
                        !.Files = Store(@, files[i], <<files[i], "r">>),
                        !.KeyDir = r.KeyDir],
              LAMBDA w1 :
                 IF r.err # Nil THEN [w |-> w1, err |-> r.err]
                 ELSE LoadScan(w1, files, i + 1)))

\* LoadFiles without the Seek to the end that sets bc.ActiveSize
LoadFiles_NoSeek(w) ==
    LET maxId == SetMax(DOMAIN w.disk)
        activeFile == <<maxId, "w">>
    IN With(LoadScan([w EXCEPT !.Files = EmptyMap], Glob(w), 1), LAMBDA r :
        IF r.err # Nil THEN r
        ELSE IF maxId > 0
        THEN Ok([r.w EXCEPT !.CurrentFileId = maxId,
                            !.fds = (@ \ {r.w.Files[maxId]}) \cup {activeFile},
                            !.Files = Store(@, maxId, activeFile),
                            !.ActiveFile = activeFile,
                            !.writer = NewWriter(activeFile)])
        ELSE Ok([r.w EXCEPT !.CurrentFileId = maxId]))

\* BitCask.LoadFiles
LoadFiles(w) ==
    LET maxId == SetMax(DOMAIN w.disk)
        activeFile == <<maxId, "w">>
    IN With(LoadScan([w EXCEPT !.Files = EmptyMap], Glob(w), 1), LAMBDA r :
        IF r.err # Nil THEN r
        ELSE IF maxId > 0
        THEN Ok([r.w EXCEPT !.CurrentFileId = maxId,
                            !.fds = (@ \ {r.w.Files[maxId]}) \cup {activeFile},
                            !.Files = Store(@, maxId, activeFile),
                            !.ActiveFile = activeFile,
                            !.ActiveSize = Len(r.w.disk[maxId]),
                            !.writer = NewWriter(activeFile)])
        ELSE Ok([r.w EXCEPT !.CurrentFileId = maxId]))

\* the BitCask value Open builds before LoadFiles, over the directory d
Fresh(d, s) ==
    [disk |-> d, synced |-> s, fds |-> {}, KeyDir |-> EmptyMap, Files |-> EmptyMap,
     CurrentFileId |-> 0, ActiveFile |-> NilFile, ActiveSize |-> 0,
     writer |-> NewWriter(NilFile)]

\* Open without the RollNewFile it calls when LoadFiles left no active file
Open_NoRoll(d, s) ==
    With(LoadFiles(Fresh(d, s)), LAMBDA l :
        IF l.err # Nil THEN l
        ELSE Ok([l.w EXCEPT !.writer = NewWriter(l.w.ActiveFile)]))

\* Open(dir)
Open(d, s) ==
    With(LoadFiles(Fresh(d, s)), LAMBDA l :
        IF l.err # Nil THEN l
        ELSE With(IF l.w.ActiveFile = NilFile THEN RollNewFile(l.w) ELSE l, LAMBDA r :
             IF r.err # Nil THEN r
             ELSE Ok([r.w EXCEPT !.writer = NewWriter(r.w.ActiveFile)])))

\* the rotation test with > for >=
NeedsRoll_Strict(w, entry) ==
    w.ActiveFile = NilFile \/ w.ActiveSize + Size(entry) > MaxActiveFileSize

\* the rotation test of Put and Delete
NeedsRoll(w, entry) ==
    w.ActiveFile = NilFile \/ w.ActiveSize + Size(entry) >= MaxActiveFileSize

\* PutLocator as it was when Put stored the value length as the size
PutLocator_ValueSize(fileId, offset, entry) ==
    [FileId |-> fileId, Offset |-> offset, Size |-> entry.valueSize]

\* the ValuePointer Put stores for the record it wrote
PutLocator(fileId, offset, entry) ==
    [FileId |-> fileId, Offset |-> offset, Size |-> Size(entry)]

\* PutRest without the bc.writer.Flush() that precedes the directory update
PutRest_NoFlush(r, key, entry) ==
    IF r.err # Nil THEN [w |-> r.w, err |-> "failed to roll new file"]
    ELSE With(writeLogEntryBuffered(r.w, entry), LAMBDA wr :
         IF wr.err # Nil THEN [w |-> wr.w, err |-> "failed to write log entry"]
         ELSE Ok([wr.w EXCEPT
                    !.KeyDir = Store(@, key,
                                     PutLocator(wr.w.CurrentFileId,
                                                r.w.ActiveSize, entry)),
                    !.ActiveSize = @ + wr.n]))

\* BitCask.Put from offset := bc.ActiveSize on, r being what the rotation,
\* if there was one, returned
PutRest(r, key, entry) ==
    IF r.err # Nil THEN [w |-> r.w, err |-> "failed to roll new file"]
    ELSE With(writeLogEntryBuffered(r.w, entry), LAMBDA wr :
         IF wr.err # Nil THEN [w |-> wr.w, err |-> "failed to write log entry"]
         ELSE With(Flush(wr.w, -1), LAMBDA fl :
              IF fl.err # Nil THEN [w |-> fl.w, err |-> "failed to flush writer"]
              ELSE Ok([fl.w EXCEPT
                         !.KeyDir = Store(@, key,
                                          PutLocator(fl.w.CurrentFileId,
                                                     r.w.ActiveSize, entry)),
                         !.ActiveSize = @ + wr.n])))

\* BitCask.Put
PutOp(w, key, value, timestamp) ==
    With(NewLogEntry(key, value, FALSE, timestamp), LAMBDA entry :
    With(IF NeedsRoll(w, entry) THEN RollNewFile(w) ELSE Ok(w), LAMBDA r :
        PutRest(r, key, entry)))

\* BitCask.Put when the file system fails the write of bc.writer.Flush()
\* after `wrote` bytes of the buffer: Put returns at that error
PutFlushFails(w, key, value, timestamp, wrote) ==
    With(NewLogEntry(key, value, FALSE, timestamp), LAMBDA entry :
    With(IF NeedsRoll(w, entry) THEN RollNewFile(w) ELSE Ok(w), LAMBDA r :
        IF r.err # Nil THEN [w |-> r.w, err |-> "failed to roll new file"]
        ELSE With(writeLogEntryBuffered(r.w, entry), LAMBDA wr :
             IF wr.err # Nil THEN [w |-> wr.w, err |-> "failed to write log entry"]
             ELSE With(Flush(wr.w, wrote), LAMBDA fl :
                  IF fl.err # Nil THEN [w |-> fl.w, err |-> "failed to flush writer"]
                  ELSE Ok([fl.w EXCEPT
                             !.KeyDir = Store(@, key,
                                              PutLocator(fl.w.CurrentFileId,
                                                         r.w.ActiveSize, entry)),
                             !.ActiveSize = @ + wr.n])))))

\* Get that flushes bc.writer before it reads
GetOp_Flushes(w, key) ==
    With(Flush(w, -1).w, LAMBDA w1 :
        IF key \notin DOMAIN w1.KeyDir
        THEN [w |-> w1, value |-> <<>>, err |-> "key not found!"]
        ELSE With(readLogEntry(w1.disk[w1.KeyDir[key].FileId], w1.KeyDir[key].Offset,
                               w1.KeyDir[key].Size),
                  LAMBDA r :
                     IF r.err # Nil THEN [w |-> w1, value |-> <<>>, err |-> r.err]
                     ELSE [w |-> w1, value |-> r.entry.Value, err |-> Nil]))

\* BitCask.Get; w is the engine as Get leaves it
GetOp(w, key) ==
    IF key \notin DOMAIN w.KeyDir THEN [w |-> w, value |-> <<>>, err |-> "key not found!"]
    ELSE LET vp == w.KeyDir[key]
         IN IF vp.FileId \notin DOMAIN w.Files
            THEN [w |-> w, value |-> <<>>, err |-> "file not found!"]
            ELSE IF w.Files[vp.FileId] \notin w.fds
            THEN [w |-> w, value |-> <<>>, err |-> "file already closed"]
            ELSE With(readLogEntry(w.disk[w.Files[vp.FileId][1]], vp.Offset, vp.Size),
                      LAMBDA r :
                         IF r.err # Nil THEN [w |-> w, value |-> <<>>, err |-> r.err]
                         ELSE IF IsDeleted(r.entry)
                         THEN [w |-> w, value |-> <<>>, err |-> "key not found"]
                         ELSE [w |-> w, value |-> r.entry.Value, err |-> Nil])

\* DeleteRest without the delete(bc.KeyDir, key) of its last line
DeleteRest_KeepsEntry(r, key, entry) ==
    IF r.err # Nil THEN [w |-> r.w, err |-> "failed to roll new file"]
    ELSE With(writeLogEntryBuffered(r.w, entry), LAMBDA wr :
         IF wr.err # Nil THEN [w |-> wr.w, err |-> "failed to write log entry"]
         ELSE Ok([wr.w EXCEPT !.ActiveSize = @ + wr.n]))

\* BitCask.Delete from the write of the tombstone on, r being what the
\* rotation, if there was one, returned
DeleteRest(r, key, entry) ==
    IF r.err # Nil THEN [w |-> r.w, err |-> "failed to roll new file"]
    ELSE With(writeLogEntryBuffered(r.w, entry), LAMBDA wr :
         IF wr.err # Nil THEN [w |-> wr.w, err |-> "failed to write log entry"]
         ELSE Ok([wr.w EXCEPT !.ActiveSize = @ + wr.n,
                              !.KeyDir = Remove(@, key)]))

\* the directory lookup of Delete, answering for every key that it is there
InKeyDir_Always(w, key) == TRUE

\* the directory lookup Delete starts with
InKeyDir(w, key) == key \in DOMAIN w.KeyDir

\* BitCask.Delete
DeleteOp(w, key, timestamp) ==
    IF ~InKeyDir(w, key) THEN [w |-> w, err |-> "key not found"]
    ELSE With(NewLogEntry(key, <<>>, TRUE, timestamp), LAMBDA entry :
         With(IF NeedsRoll(w, entry) THEN RollNewFile(w) ELSE Ok(w), LAMBDA r :
            DeleteRest(r, key, entry)))

\* Sync without the bc.ActiveFile.Sync() after the flush
SyncOp_NoFsync(w) ==
    With(Flush(w, -1), LAMBDA fl :
        IF fl.err # Nil THEN [w |-> fl.w, err |-> "failed to flush buffer"]
        ELSE Ok(fl.w))

\* BitCask.Sync
SyncOp(w) ==
    With(Flush(w, -1), LAMBDA fl :
        IF fl.err # Nil THEN [w |-> fl.w, err |-> "failed to flush buffer"]
        ELSE IF fl.w.ActiveFile = NilFile THEN Ok(fl.w)
        ELSE With(FileSync(fl.w, fl.w.ActiveFile), LAMBDA sy :
             IF sy.err # Nil THEN [w |-> sy.w, err |-> "failed to sync to disk"]
             ELSE sy))

\* one pass of the goroutine of startBackgroundSync: flush, then fsync, both
\* errors dropped; the flush fails after `wrote` bytes when wrote >= 0 and
\* the fsync fails when syncFails
FlushAndSync(w, wrote, syncFails) ==
    With(Flush(w, wrote), LAMBDA fl :
        IF fl.w.ActiveFile = NilFile \/ syncFails THEN fl.w
        ELSE FileSync(fl.w, fl.w.ActiveFile).w)

\* BitCask.Close, after close(bc.done) and syncWg.Wait() let the goroutine
\* make its last pass (bgWrote, bgSyncFails as in FlushAndSync).  fault names
\* the step of Close that fails: "sync" the fsync, "close" the close of a
\* handle, reached after the handles of `attempted` were closed.
CloseOp(w, bgWrote, bgSyncFails, fault, attempted) ==
    With(FlushAndSync(w, bgWrote, bgSyncFails), LAMBDA w1 :
    With(Flush(w1, -1), LAMBDA fl :
        IF fl.err # Nil THEN [w |-> fl.w, err |-> "failed to flush buffer on close"]
        ELSE IF fl.w.ActiveFile # NilFile /\ fault = "sync"
        THEN [w |-> fl.w, err |-> "failed to sync on close"]
        ELSE With(IF fl.w.ActiveFile # NilFile
                  THEN FileSync(fl.w, fl.w.ActiveFile).w ELSE fl.w,
                  LAMBDA sy :
                     IF fault = "close"
                     THEN [w |-> [sy EXCEPT
                                    !.fds = @ \ {sy.Files[id] : id \in attempted}],
                           err |-> "failed to close file"]
                     ELSE Ok([sy EXCEPT
                                !.fds = @ \ {sy.Files[id] : id \in DOMAIN sy.Files}]))))

\* ------------------------------------------------------- what callers see
Broken == <<-2>>
IsNotFound(err) == err = "key not found" \/ err = "key not found!"

\* Get(k) for every key: the value, Absent for not-found, Broken otherwise
ViewOf(w) ==
    [k \in Keys |-> LET g == GetOp(w, k)
                    IN IF g.err = Nil THEN g.value
                       ELSE IF IsNotFound(g.err) THEN Absent ELSE Broken]

NoCall ==
    [op |-> "none", key |-> <<>>, value |-> <<>>, err |-> Nil,
     preSize |-> 0, preId |-> 0, rec |-> <<>>, view |-> EmptyMap,
     live |-> FALSE, clean |-> FALSE, how |-> "none", durable |-> EmptyMap, later |-> EmptyMap]

\* ------------------------------------------------------------------- Init
Started ==
    \E r \in {Open(EmptyMap, EmptyMap)} :
       /\ disk = r.w.disk
       /\ synced = r.w.synced
       /\ fds = r.w.fds
       /\ KeyDir = r.w.KeyDir
       /\ Files = r.w.Files
       /\ CurrentFileId = r.w.CurrentFileId
       /\ ActiveFile = r.w.ActiveFile
       /\ ActiveSize = r.w.ActiveSize
       /\ writer = r.w.writer
       /\ done = FALSE
       /\ bg = "running"
       /\ phase = "open"
       /\ restarts = 0
       /\ mutations = 0
       /\ last = [NoCall EXCEPT !.op = "Open"]
       /\ expect = [k \in Keys |-> Absent]
       /\ clean = FALSE
       /\ durable = [k \in Keys |-> Absent]
       /\ later = [k \in Keys |-> {}]
       /\ Mu = Unlocked
       /\ calls = [t \in Threads |-> Idle]
       /\ commits = <<>>
       /\ appended = 0
       /\ bgs = NoBg

Init == Started /\ listing = NoListing

\* ---------------------------------------------------------------- actions
Put(key, value, timestamp) ==
    /\ phase = "open"
    /\ mutations < MaxMutations
    /\ mutations' = mutations + 1
    /\ \E entry \in {NewLogEntry(key, value, FALSE, timestamp)},
          r \in {PutOp(World, key, value, timestamp)} :
          /\ NeedsRoll(World, entry) => CurrentFileId < MaxFileId
          /\ Install(r.w)
          /\ last' = [NoCall EXCEPT !.op = "Put", !.key = key, !.value = value,
                                    !.err = r.err, !.preSize = ActiveSize,
                                    !.preId = CurrentFileId,
                                    !.rec = EncodeEntry(entry)]
          /\ expect' = IF r.err = Nil THEN [expect EXCEPT ![key] = value] ELSE expect
          /\ later' = IF r.err = Nil THEN [later EXCEPT ![key] = @ \cup {value}]
                      ELSE later
    /\ clean' = FALSE
    /\ UNCHANGED <<done, bg, phase, restarts, durable, conc>>
    /\ appended' = IF last'.err = Nil THEN appended + Len(last'.rec) ELSE appended
    /\ UNCHANGED <<listing, bgs>>

Get(key) ==
    /\ phase = "open"
    /\ \E r \in {GetOp(World, key)} :
          /\ Install(r.w)
          /\ last' = [NoCall EXCEPT !.op = "Get", !.key = key, !.value = r.value,
                                    !.err = r.err]
    /\ UNCHANGED <<done, bg, phase, restarts, mutations, expect, clean,
                   durable, later, conc>>
    /\ UNCHANGED <<appended, listing, bgs>>

Delete(key, timestamp) ==
    /\ phase = "open"
    /\ mutations < MaxMutations
    /\ \E entry \in {NewLogEntry(key, <<>>, TRUE, timestamp)},
          r \in {DeleteOp(World, key, timestamp)} :
          /\ NeedsRoll(World, entry) => CurrentFileId < MaxFileId
          /\ Install(r.w)
          /\ last' = [NoCall EXCEPT !.op = "Delete", !.key = key, !.err = r.err,
                                    !.preSize = ActiveSize, !.preId = CurrentFileId,
                                    !.rec = EncodeEntry(entry),
                                    !.live = (expect[key] # Absent)]
          /\ mutations' = IF r.err = Nil THEN mutations + 1 ELSE mutations
          /\ expect' = IF r.err = Nil THEN [expect EXCEPT ![key] = Absent] ELSE expect
          /\ later' = IF r.err = Nil THEN [later EXCEPT ![key] = @ \cup {Absent}]
                      ELSE later
          /\ clean' = (clean /\ r.err # Nil)
    /\ UNCHANGED <<done, bg, phase, restarts, durable, conc>>
    /\ appended' = IF last'.err = Nil THEN appended + Len(last'.rec) ELSE appended
    /\ UNCHANGED <<listing, bgs>>

Sync ==
    /\ phase = "open"
    /\ \E r \in {SyncOp(World)} :
          /\ Install(r.w)
          /\ last' = [NoCall EXCEPT !.op = "Sync", !.err = r.err]
          /\ clean' = (r.err = Nil)
          /\ durable' = IF r.err = Nil THEN expect ELSE durable
          /\ later' = IF r.err = Nil THEN [k \in Keys |-> {}] ELSE later
    /\ UNCHANGED <<done, bg, phase, restarts, mutations, expect, conc>>
    /\ UNCHANGED <<appended, listing, bgs>>

\* case <-ticker.C of the goroutine of startBackgroundSync
Tick ==
    /\ phase = "open"
    /\ bg = "running"
    /\ \E w \in {FlushAndSync(World, -1, FALSE)} : Install(w)
    /\ last' = [NoCall EXCEPT !.op = "Tick"]
    /\ durable' = expect
    /\ later' = [k \in Keys |-> {}]
    /\ UNCHANGED <<done, bg, phase, restarts, mutations, expect, clean, conc>>
    /\ UNCHANGED <<appended, listing, bgs>>

\* the failures the file system may answer Close with
FlushFaults == {-1} \cup {n \in 0..(Len(writer.buf) - 1) : n % TearStep = 0}
CloseFaults == {"none", "sync", "close"}

Close ==
    /\ phase = "open"
    /\ \E bgWrote \in FlushFaults, bgSyncFails \in BOOLEAN, fault \in CloseFaults,
          attempted \in SUBSET (DOMAIN Files) :
          /\ IF fault = "close" THEN attempted # {} ELSE attempted = {}
          /\ \E r \in {CloseOp(World, bgWrote, bgSyncFails, fault, attempted)} :
                /\ Install(r.w)
                /\ last' = [NoCall EXCEPT !.op = "Close", !.err = r.err,
                                          !.view = ViewOf(World),
                                          !.clean = (clean /\ r.err = Nil),
                                          !.durable = durable, !.later = later]
    /\ done' = TRUE
    /\ bg' = "exited"
    /\ phase' = "closed"
    /\ UNCHANGED <<restarts, mutations, expect, clean, durable, later, conc>>
    /\ UNCHANGED <<appended, listing, bgs>>

\* the lengths a crash may cut a file to: the fsynced prefix and some of the
\* bytes written after it
Torn(id) ==
    {n \in synced[id]..Len(disk[id]) :
        n = Len(disk[id]) \/ (n - synced[id]) % TearStep = 0}

RECURSIVE Survivors(_)
\* the directories a crash may leave
Survivors(ids) ==
    IF ids = {} THEN {EmptyMap}
    ELSE LET id == CHOOSE x \in ids : TRUE
         IN {Store(d, id, SubSeq(disk[id], 1, n)) :
                d \in Survivors(ids \ {id}), n \in Torn(id)}

\* the process (and machine) stops: buffered and un-fsynced bytes may be lost
Crash ==
    /\ phase \in {"open", "closed"}
    /\ restarts < MaxRestarts
    /\ \E d \in Survivors(DOMAIN disk) :
          /\ disk' = d
          /\ synced' = [id \in DOMAIN d |-> Len(d[id])]
    /\ fds' = {}
    /\ KeyDir' = EmptyMap
    /\ Files' = EmptyMap
    /\ CurrentFileId' = 0
    /\ ActiveFile' = NilFile
    /\ ActiveSize' = 0
    /\ writer' = NewWriter(NilFile)
    /\ done' = FALSE
    /\ bg' = "exited"
    /\ phase' = "down"
    /\ last' = [NoCall EXCEPT !.op = "Crash",
                              !.view = IF phase = "closed" THEN last.view ELSE ViewOf(World),
                              !.durable = durable, !.later = later]
    /\ UNCHANGED <<restarts, mutations, expect, clean, durable, later, conc>>
    /\ UNCHANGED <<appended, listing, bgs>>

\* a fresh Open(dir) of the directory, after Close returned or after a crash
Reopen ==
    /\ phase \in {"closed", "down"}
    /\ restarts < MaxRestarts
    /\ \E r \in {Open(disk, synced)} :
          /\ Install(r.w)
          /\ phase' = IF r.err = Nil THEN "open" ELSE "closed"
          /\ bg' = IF r.err = Nil THEN "running" ELSE "exited"
          /\ last' = [last EXCEPT !.op = "Open", !.err = r.err, !.how = last.op]
          /\ \E v \in {ViewOf(r.w)} :
                /\ expect' = v
                /\ durable' = v
    /\ done' = FALSE
    /\ restarts' = restarts + 1
    /\ clean' = FALSE
    /\ later' = [k \in Keys |-> {}]
    /\ UNCHANGED <<mutations, conc>>
    /\ UNCHANGED <<appended, listing, bgs>>

Next ==
    \/ \E key \in Keys, value \in Values, timestamp \in Timestamps :
          Put(key, value, timestamp)
    \/ \E key \in Keys : Get(key)
    \/ \E key \in Keys, timestamp \in Timestamps : Delete(key, timestamp)
    \/ Sync
    \/ Tick
    \/ Close
    \/ Crash
    \/ Reopen

Spec == Init /\ [][Next]_vars

\* ------------------------------------------- goroutines sharing one engine
\* the grant of the write lock that does not wait for readers
CanLock_IgnoresReaders(mu) == mu.writer = "none"

\* sync.RWMutex.Lock is granted: no writer and no reader holds bc.Mu
CanLock(mu) == mu.writer = "none" /\ mu.readers = {}

\* the grant of a read lock that looks at nothing
CanRLock_Always(mu) == TRUE

\* sync.RWMutex.RLock is granted: no writer holds bc.Mu
CanRLock(mu) == mu.writer = "none"

Mutators == {"Put", "Delete"}

\* the record the call of goroutine t appends
EntryOf(c) ==
    NewLogEntry(c.key, c.value, c.op = "Delete", c.timestamp)

\* the mutation of c rotates first: Put always tests, Delete after its lookup
RollsFirst(w, c) ==
    /\ c.op = "Put" \/ InKeyDir(w, c.key)
    /\ NeedsRoll(w, EntryOf(c))

\* a goroutine calls Put, Get or Delete and reaches the lock of its first line
Call(t, op, key, value, timestamp) ==
    /\ phase = "open"
    /\ calls[t].pc = "idle"
    /\ op \in Mutators => mutations < MaxMutations
    /\ mutations' = IF op \in Mutators THEN mutations + 1 ELSE mutations
    /\ calls' = [calls EXCEPT ![t] = [Idle EXCEPT !.pc = "wait", !.op = op, !.key = key,
                                                  !.value = value,
                                                  !.timestamp = timestamp,
                                                  !.from = Len(commits)]]
    /\ UNCHANGED <<os, engine, done, bg, phase, restarts, ghost, Mu, commits>>
    /\ UNCHANGED <<appended, listing, bgs>>

\* bc.Mu.Lock() of Put and Delete returns
Lock(t) ==
    /\ calls[t].pc = "wait"
    /\ calls[t].op \in Mutators
    /\ CanLock(Mu)
    /\ Mu' = [Mu EXCEPT !.writer = t]
    /\ calls' = [calls EXCEPT ![t].pc = "in"]
    /\ UNCHANGED <<os, engine, done, bg, phase, restarts, mutations, ghost, commits>>
    /\ UNCHANGED <<appended, listing, bgs>>

\* bc.Mu.RLock() of Get returns
RLock(t) ==
    /\ calls[t].pc = "wait"
    /\ calls[t].op = "Get"
    /\ CanRLock(Mu)
    /\ Mu' = [Mu EXCEPT !.readers = @ \cup {t}]
    /\ calls' = [calls EXCEPT ![t].pc = "in"]
    /\ UNCHANGED <<os, engine, done, bg, phase, restarts, mutations, ghost, commits>>
    /\ UNCHANGED <<appended, listing, bgs>>

\* the body of Get: the lookup and the read of the record
Read(t) ==
    /\ calls[t].pc = "in"
    /\ calls[t].op = "Get"
    /\ \E r \in {GetOp(World, calls[t].key)} :
          /\ Install(r.w)
          /\ calls' = [calls EXCEPT ![t].pc = "ret", ![t].err = r.err,
                                    ![t].got = IF r.err = Nil THEN r.value
                                               ELSE IF IsNotFound(r.err) THEN Absent
                                               ELSE Broken,
                                    ![t].at = Len(commits)]
    /\ UNCHANGED <<done, bg, phase, restarts, mutations, ghost, Mu, commits>>
    /\ UNCHANGED <<appended, listing, bgs>>

\* a mutation at its threshold, as far as RollNewFile having fsynced and
\* closed the active segment
Seal(t) ==
    /\ calls[t].pc = "in"
    /\ calls[t].op \in Mutators
    /\ RollsFirst(World, calls[t])
    /\ CurrentFileId < MaxFileId
    /\ \E w \in {RollSeal(World)} : Install(w)
    /\ calls' = [calls EXCEPT ![t].pc = "sealed"]
    /\ UNCHANGED <<done, bg, phase, restarts, mutations, ghost, Mu, commits>>
    /\ UNCHANGED <<appended, listing, bgs>>

\* what the call of c does from where it stands to its return
Finish(w, c) ==
    IF c.op = "Delete" /\ c.pc = "in" /\ ~InKeyDir(w, c.key)
    THEN [w |-> w, err |-> "key not found"]
    ELSE With(IF c.pc = "sealed" THEN RollOpen(w) ELSE Ok(w), LAMBDA r :
            IF c.op = "Put" THEN PutRest(r, c.key, EntryOf(c))
            ELSE DeleteRest(r, c.key, EntryOf(c)))

\* the rest of a mutation: the rotation completed if one began, the record
\* written, the key directory and ActiveSize updated
Commit(t) ==
    /\ calls[t].op \in Mutators
    /\ \/ calls[t].pc = "sealed"
       \/ calls[t].pc = "in" /\ ~RollsFirst(World, calls[t])
    /\ \E r \in {Finish(World, calls[t])} :
          /\ Install(r.w)
          /\ calls' = [calls EXCEPT ![t].pc = "ret", ![t].err = r.err]
          /\ commits' = IF r.err # Nil THEN commits
                        ELSE Append(commits,
                                    <<calls[t].key,
                                      IF calls[t].op = "Put" THEN calls[t].value
                                      ELSE Absent>>)
    /\ UNCHANGED <<done, bg, phase, restarts, mutations, ghost, Mu>>
    /\ appended' = IF calls'[t].err = Nil
                   THEN appended + Len(EncodeEntry(EntryOf(calls[t]))) ELSE appended
    /\ UNCHANGED <<listing, bgs>>

\* the deferred bc.Mu.Unlock() or bc.Mu.RUnlock(), and the return
Unlock(t) ==
    /\ calls[t].pc = "ret"
    /\ Mu' = [writer |-> IF Mu.writer = t THEN "none" ELSE Mu.writer,
              readers |-> Mu.readers \ {t}]
    /\ calls' = [calls EXCEPT ![t] = Idle]
    /\ UNCHANGED <<os, engine, done, bg, phase, restarts, mutations, ghost, commits>>
    /\ UNCHANGED <<appended, listing, bgs>>

\* case <-ticker.C: the goroutine of startBackgroundSync takes bc.Mu
TickLock ==
    /\ phase = "open"
    /\ bg = "running"
    /\ CanLock(Mu)
    /\ Mu' = [Mu EXCEPT !.writer = "bg"]
    /\ bg' = "flushing"
    /\ UNCHANGED <<os, engine, done, phase, restarts, mutations, ghost, calls, commits>>
    /\ UNCHANGED <<appended, listing, bgs>>

\* the flush and fsync of the tick, and its bc.Mu.Unlock()
TickFlush ==
    /\ bg = "flushing"
    /\ \E w \in {FlushAndSync(World, -1, FALSE)} : Install(w)
    /\ Mu' = [Mu EXCEPT !.writer = "none"]
    /\ bg' = "running"
    /\ UNCHANGED <<done, phase, restarts, mutations, ghost, calls, commits>>
    /\ UNCHANGED <<appended, listing, bgs>>

NextConc ==
    \/ \E t \in Threads, key \in Keys, value \in Values, timestamp \in Timestamps :
          Call(t, "Put", key, value, timestamp)
    \/ \E t \in Threads, key \in Keys :
          Call(t, "Get", key, <<>>, 0)
    \/ \E t \in Threads, key \in Keys, timestamp \in Timestamps :
          Call(t, "Delete", key, <<>>, timestamp)
    \/ \E t \in Threads : Lock(t)
    \/ \E t \in Threads : RLock(t)
    \/ \E t \in Threads : Read(t)
    \/ \E t \in Threads : Seal(t)
    \/ \E t \in Threads : Commit(t)
    \/ \E t \in Threads : Unlock(t)
    \/ TickLock
    \/ TickFlush

SpecConc == Init /\ [][NextConc]_vars


\* ------------------------------------- Sync, Close and the background task
\* every handle of bc.Files closed: the loop that ends Close
CloseHandles(w) == [w EXCEPT !.fds = @ \ {w.Files[id] : id \in DOMAIN w.Files}]

\* a case of the select of the goroutine is ready: ticker.C holds a tick
TickReady(b) == b.tick

\* case <-bc.done ready although the channel was never closed
StopReady_Never(d) == FALSE

\* a case of the select of the goroutine is ready: bc.done is closed
StopReady(d) == d

\* a goroutine calls Sync and reaches its bc.Mu.Lock()
CallSync(t) ==
    /\ phase = "open"
    /\ calls[t].pc = "idle"
    /\ calls' = [calls EXCEPT ![t] = [Idle EXCEPT !.pc = "wait", !.op = "Sync"]]
    /\ UNCHANGED <<os, engine, done, bg, phase, restarts, mutations, ghost, Mu, commits>>
    /\ UNCHANGED <<appended, listing, bgs>>

\* bc.Mu.Lock() of Sync or of Close returns
LockSync(t) ==
    /\ calls[t].pc = "wait"
    /\ calls[t].op \in {"Sync", "Close"}
    /\ CanLock(Mu)
    /\ Mu' = [Mu EXCEPT !.writer = t]
    /\ calls' = [calls EXCEPT ![t].pc = "in"]
    /\ UNCHANGED <<os, engine, done, bg, phase, restarts, mutations, ghost, commits>>
    /\ UNCHANGED <<appended, listing, bgs>>

\* the body of Sync: the flush and the fsync
SyncBody(t) ==
    /\ calls[t].pc = "in"
    /\ calls[t].op = "Sync"
    /\ \E r \in {SyncOp(World)} :
          /\ Install(r.w)
          /\ calls' = [calls EXCEPT ![t].pc = "ret", ![t].err = r.err]
    /\ UNCHANGED <<done, bg, phase, restarts, mutations, ghost, Mu, commits>>
    /\ UNCHANGED <<appended, listing, bgs>>

\* bc.Mu.Lock() of Put and Delete returns; a call that would rotate past
\* the last segment id of the model stays outside the lock
LockBounded(t) ==
    /\ (RollsFirst(World, calls[t]) /\ ActiveFile \in fds) => CurrentFileId < MaxFileId
    /\ Lock(t)

\* a mutation at its threshold while the handle of the active segment is
\* open: the bc.ActiveFile.Sync() and Close() of RollNewFile succeed
SealOpen(t) ==
    /\ ActiveFile \in fds
    /\ Seal(t)

\* a mutation at its threshold after Close closed the handles: the
\* bc.ActiveFile.Sync() of RollNewFile fails, and the call returns its error
SealFails(t) ==
    /\ calls[t].pc = "in"
    /\ calls[t].op \in Mutators
    /\ RollsFirst(World, calls[t])
    /\ ActiveFile \notin fds
    /\ calls' = [calls EXCEPT ![t].pc = "ret", ![t].err = "failed to roll new file"]
    /\ UNCHANGED <<os, engine, done, bg, phase, restarts, mutations, ghost, Mu, commits>>
    /\ UNCHANGED <<appended, listing, bgs>>

\* Close, its first line: close(bc.done); then it stands at bc.syncWg.Wait()
CloseSignal(t) ==
    /\ phase = "open"
    /\ calls[t].pc = "idle"
    /\ ~done
    /\ done' = TRUE
    /\ calls' = [calls EXCEPT ![t] = [Idle EXCEPT !.pc = "joining", !.op = "Close"]]
    /\ UNCHANGED <<os, engine, bg, phase, restarts, mutations, ghost, Mu, commits>>
    /\ UNCHANGED <<appended, listing, bgs>>

\* Close without bc.syncWg.Wait()
CloseJoin_NoWait(t) ==
    /\ calls[t].pc = "joining"
    /\ calls' = [calls EXCEPT ![t].pc = "wait"]
    /\ UNCHANGED <<os, engine, done, bg, phase, restarts, mutations, ghost, Mu, commits>>
    /\ UNCHANGED <<appended, listing, bgs>>

\* bc.syncWg.Wait() returns: the goroutine ran its deferred syncWg.Done()
CloseJoin(t) ==
    /\ calls[t].pc = "joining"
    /\ bg = "exited"
    /\ calls' = [calls EXCEPT ![t].pc = "wait"]
    /\ UNCHANGED <<os, engine, done, bg, phase, restarts, mutations, ghost, Mu, commits>>
    /\ UNCHANGED <<appended, listing, bgs>>

\* Close inside the lock: the final flush and fsync
CloseFlush(t) ==
    /\ calls[t].pc = "in"
    /\ calls[t].op = "Close"
    /\ \E r \in {SyncOp(World)} :
          /\ Install(r.w)
          /\ calls' = [calls EXCEPT ![t].pc = IF r.err = Nil THEN "synced" ELSE "ret",
                                    ![t].err = r.err]
    /\ UNCHANGED <<done, bg, phase, restarts, mutations, ghost, Mu, commits>>
    /\ UNCHANGED <<appended, listing, bgs>>

\* Close inside the lock: the handles of bc.Files closed, and return nil
CloseFiles(t) ==
    /\ calls[t].pc = "synced"
    /\ \E w \in {CloseHandles(World)} : Install(w)
    /\ phase' = "closed"
    /\ calls' = [calls EXCEPT ![t].pc = "ret"]
    /\ UNCHANGED <<done, bg, restarts, mutations, ghost, Mu, commits>>
    /\ UNCHANGED <<appended, listing, bgs>>

\* the ticker sends on ticker.C, which buffers one tick
Timer ==
    /\ bg # "exited"
    /\ ~TickReady(bgs)
    /\ bgs' = [bgs EXCEPT !.tick = TRUE]
    /\ UNCHANGED <<os, engine, done, bg, phase, restarts, mutations, ghost, conc>>
    /\ UNCHANGED <<appended, listing>>

\* the select of the goroutine takes case <-ticker.C
BgTick ==
    /\ bg = "running"
    /\ TickReady(bgs)
    /\ bg' = "tickwait"
    /\ bgs' = [bgs EXCEPT !.tick = FALSE]
    /\ UNCHANGED <<os, engine, done, phase, restarts, mutations, ghost, conc>>
    /\ UNCHANGED <<appended, listing>>

\* the select of the goroutine takes case <-bc.done
BgStop ==
    /\ bg = "running"
    /\ StopReady(done)
    /\ bg' = "stopwait"
    /\ UNCHANGED <<os, engine, done, phase, restarts, mutations, ghost, conc>>
    /\ UNCHANGED <<appended, listing, bgs>>

\* the goroutine going on to its flush without bc.Mu.Lock()
BgLock_NoLock ==
    /\ bg \in {"tickwait", "stopwait"}
    /\ bg' = IF bg = "tickwait" THEN "tick" ELSE "stop"
    /\ bgs' = [bgs EXCEPT !.id = CurrentFileId,
                          !.mark = Len(disk[CurrentFileId]) + Len(writer.buf)]
    /\ UNCHANGED <<os, engine, done, phase, restarts, mutations, ghost, conc>>
    /\ UNCHANGED <<appended, listing>>

\* bc.Mu.Lock() of the goroutine returns, in either case
BgLock ==
    /\ bg \in {"tickwait", "stopwait"}
    /\ CanLock(Mu)
    /\ Mu' = [Mu EXCEPT !.writer = "bg"]
    /\ bg' = IF bg = "tickwait" THEN "tick" ELSE "stop"
    /\ bgs' = [bgs EXCEPT !.id = CurrentFileId,
                          !.mark = Len(disk[CurrentFileId]) + Len(writer.buf)]
    /\ UNCHANGED <<os, engine, done, phase, restarts, mutations, ghost, calls, commits>>
    /\ UNCHANGED <<appended, listing>>

\* _ = bc.writer.Flush() of the goroutine
BgFlush ==
    /\ bg \in {"tick", "stop"}
    /\ \E r \in {Flush(World, -1)} : Install(r.w)
    /\ bg' = IF bg = "tick" THEN "tickflushed" ELSE "stopflushed"
    /\ bgs' = [bgs EXCEPT !.late = IF done /\ @ < 2 THEN @ + 1 ELSE @,
                          !.stops = IF bg = "stop" THEN @ + 1 ELSE @]
    /\ UNCHANGED <<done, phase, restarts, mutations, ghost, conc>>
    /\ UNCHANGED <<appended, listing>>

\* _ = bc.ActiveFile.Sync() of the goroutine, its bc.Mu.Unlock(), and the
\* return with syncWg.Done() in the case of bc.done
BgFsync ==
    /\ bg \in {"tickflushed", "stopflushed"}
    /\ \E r \in {FileSync(World, ActiveFile)} : Install(r.w)
    /\ Mu' = [Mu EXCEPT !.writer = "none"]
    /\ bg' = IF bg = "tickflushed" THEN "running" ELSE "exited"
    /\ bgs' = [bgs EXCEPT !.id = 0, !.mark = 0,
                          !.tick = IF bg = "tickflushed" THEN @ ELSE FALSE]
    /\ UNCHANGED <<done, phase, restarts, mutations, ghost, calls, commits>>
    /\ UNCHANGED <<appended, listing>>

\* the calls of this specification: one key, one value
NextShutdown ==
    \/ \E t \in Threads, timestamp \in Timestamps : Call(t, "Put", <<1>>, <<7>>, timestamp)
    \/ \E t \in Threads : Call(t, "Get", <<1>>, <<>>, 0)
    \/ \E t \in Threads, timestamp \in Timestamps : Call(t, "Delete", <<1>>, <<>>, timestamp)
    \/ \E t \in Threads : CallSync(t)
    \/ \E t \in Threads : LockBounded(t)
    \/ \E t \in Threads : RLock(t)
    \/ \E t \in Threads : LockSync(t)
    \/ \E t \in Threads : Read(t)
    \/ \E t \in Threads : SealOpen(t)
    \/ \E t \in Threads : SealFails(t)
    \/ \E t \in Threads : Commit(t)
    \/ \E t \in Threads : SyncBody(t)
    \/ \E t \in Threads : Unlock(t)
    \/ \E t \in Threads : CloseSignal(t)
    \/ \E t \in Threads : CloseJoin(t)
    \/ \E t \in Threads : CloseFlush(t)
    \/ \E t \in Threads : CloseFiles(t)
    \/ Timer
    \/ BgTick
    \/ BgStop
    \/ BgLock
    \/ BgFlush
    \/ BgFsync

SpecShutdown == Init /\ [][NextShutdown]_vars

\* What the scheduler and sync.RWMutex grant: a goroutine that can take a
\* step takes it; a goroutine blocked in Lock or RLock gets the lock when it
\* is released again and again (the mutex queues its waiters); and a select
\* that again and again finds bc.done closed takes that case.
FairShutdown ==
    /\ \A t \in Threads :
          /\ SF_vars(LockBounded(t) \/ RLock(t) \/ LockSync(t))
          /\ WF_vars(Read(t) \/ SealOpen(t) \/ SealFails(t) \/ Commit(t) \/ SyncBody(t)
                     \/ Unlock(t) \/ CloseJoin(t) \/ CloseFlush(t) \/ CloseFiles(t))
    /\ SF_vars(BgStop)
    /\ SF_vars(BgLock)
    /\ WF_vars(BgFlush \/ BgFsync)

SpecShutdownFair == SpecShutdown /\ FairShutdown

\* ------------------------------------------------ a file system that fails
\* a Put during which the write of the flush fails, part of the buffer
\* having reached the file
FailedPut(key, value, timestamp) ==
    /\ phase = "open"
    /\ mutations < MaxMutations
    /\ mutations' = mutations + 1
    /\ \E entry \in {NewLogEntry(key, value, FALSE, timestamp)} :
          /\ NeedsRoll(World, entry) => CurrentFileId < MaxFileId
          /\ \E wrote \in {n \in 0..(Len(writer.buf) + Size(entry) - 1) :
                              n % TearStep = 0} :
                \E r \in {PutFlushFails(World, key, value, timestamp, wrote)} :
                   /\ Install(r.w)
                   /\ last' = [NoCall EXCEPT !.op = "Put", !.key = key,
                                             !.value = value, !.err = r.err,
                                             !.preSize = ActiveSize,
                                             !.preId = CurrentFileId,
                                             !.rec = EncodeEntry(entry),
                                             !.view = ViewOf(World)]
    /\ clean' = FALSE
    /\ UNCHANGED <<done, bg, phase, restarts, expect, durable, later, conc, appended,
                   listing, bgs>>

NextFaults ==
    \/ \E key \in Keys, value \in Values, timestamp \in Timestamps :
          Put(key, value, timestamp)
    \/ \E key \in Keys : Get(key)
    \/ \E key \in Keys, timestamp \in Timestamps : Delete(key, timestamp)
    \/ Sync
    \/ Tick
    \/ \E key \in Keys, value \in Values, timestamp \in Timestamps :
          FailedPut(key, value, timestamp)

SpecFaults == Init /\ [][NextFaults]_vars

\* ------------------------------------------------- a rotation that fails
\* the steps of RollNewFile that return an error
RollFaults == {"sync", "close", "reopen", "create"}

\* BitCask.RollNewFile returning the error of `step`: of the fsync of the
\* active file, of its Close (the descriptor is released all the same), of
\* the read-only reopen of the old segment, or of the creation of the new one
RollNewFileFails(w, step) ==
    IF step = "sync"
    THEN [w |-> w, err |-> "sync failed"]
    ELSE With(RollSeal(w), LAMBDA sealed :
         IF step = "close" THEN [w |-> sealed, err |-> "close failed"]
         ELSE IF step = "reopen" THEN [w |-> sealed, err |-> "open failed"]
         ELSE [w |-> [sealed EXCEPT
                         !.fds = @ \cup {<<w.CurrentFileId, "r">>},
                         !.Files = Store(@, w.CurrentFileId, <<w.CurrentFileId, "r">>)],
               err |-> "create failed"])

\* a Put, or a Delete of a key the directory holds, that needs a rotation
\* which fails at `step`
FailedRoll(op, key, value, timestamp, step) ==
    /\ phase = "open"
    /\ mutations < MaxMutations
    /\ mutations' = mutations + 1
    /\ op = "Delete" => InKeyDir(World, key) /\ value = <<>>
    /\ ActiveFile \in fds
    /\ \E entry \in {NewLogEntry(key, value, op = "Delete", timestamp)} :
          /\ NeedsRoll(World, entry)
          /\ \E r \in {RollNewFileFails(World, step)} :
                \E res \in {IF op = "Put" THEN PutRest(r, key, entry)
                            ELSE DeleteRest(r, key, entry)} :
                   /\ Install(res.w)
                   /\ last' = [NoCall EXCEPT !.op = op, !.key = key,
                                             !.value = value, !.err = res.err,
                                             !.preSize = ActiveSize,
                                             !.preId = CurrentFileId,
                                             !.rec = EncodeEntry(entry),
                                             !.how = step,
                                             !.view = ViewOf(World)]
    /\ clean' = FALSE
    /\ UNCHANGED <<done, bg, phase, restarts, expect, durable, later, conc, appended,
                   listing, bgs>>

NextRollFaults ==
    \/ \E key \in Keys, value \in Values, timestamp \in Timestamps :
          Put(key, value, timestamp)
    \/ \E key \in Keys : Get(key)
    \/ \E key \in Keys, timestamp \in Timestamps : Delete(key, timestamp)
    \/ Sync
    \/ \E key \in Keys, value \in Values, timestamp \in Timestamps :
          FailedPut(key, value, timestamp)
    \/ \E op \in Mutators, key \in Keys, value \in Values, timestamp \in Timestamps,
          step \in RollFaults :
          FailedRoll(op, key, value, timestamp, step)

SpecRollFaults == Init /\ [][NextRollFaults]_vars

\* --------------------------------------------- the names of segment files
\* the stems of the *.log files a directory may hold, as digit strings:
\* names the engine makes and names of other widths
Stems ==
    { <<0, 0, 0, 0, 0, 1>>, <<0, 0, 0, 0, 0, 2>>, <<0, 0, 0, 0, 1, 0>>,
      <<9, 9, 9, 9, 9, 9>>, <<1, 0, 0, 0, 0, 0, 0>>,
      <<2>>, <<1, 0>>, <<0, 0, 0, 0, 2>> }

RECURSIVE AtoiUpTo(_, _)
\* strconv.Atoi of the first n digits of a stem
AtoiUpTo(stem, n) ==
    IF n = 0 THEN 0 ELSE AtoiUpTo(stem, n - 1) * 10 + stem[n]

\* strconv.Atoi(name)
Atoi(stem) == AtoiUpTo(stem, Len(stem))

RECURSIVE Digits(_)
\* the decimal digits of n
Digits(n) == IF n < 10 THEN <<n>> ELSE Digits(n \div 10) \o <<n % 10>>

RECURSIVE ZeroPad(_, _)
ZeroPad(digits, width) ==
    IF Len(digits) >= width THEN digits ELSE ZeroPad(<<0>> \o digits, width)

\* fmt.Sprintf("%06d", id)
FormatName(id) == ZeroPad(Digits(id), 6)

RECURSIVE LexLess(_, _, _)
\* the name a.log sorts before the name b.log, the bytes before i being
\* equal; the dot sorts before every digit
LexLess(a, b, i) ==
    IF i > Len(a) THEN i <= Len(b)
    ELSE IF i > Len(b) THEN FALSE
    ELSE IF a[i] # b[i] THEN a[i] < b[i]
    ELSE LexLess(a, b, i + 1)

RECURSIVE SortedNames(_)
\* filepath.Glob: the matching names in lexical order
SortedNames(S) ==
    IF S = {} THEN <<>>
    ELSE LET m == CHOOSE x \in S : \A y \in S \ {x} : LexLess(x, y, 1)
         IN <<m>> \o SortedNames(S \ {m})

\* the ids LoadFiles replays, in the order of its loop over the names, and
\* whether the file it reopens for append, %06d of the maximum id, exists
ReplayOrder(S) ==
    With(SortedNames(S), LAMBDA files :
        LET ids == [i \in 1..Len(files) |-> Atoi(files[i])]
            maxId == SetMax({ids[i] : i \in 1..Len(ids)})
        IN [names |-> S, order |-> ids,
            opened |-> (maxId > 0 => FormatName(maxId) \in S), done |-> TRUE])

\* Open reads the listing of a directory
List ==
    /\ ~listing.done
    /\ listing' = ReplayOrder(listing.names)
    /\ UNCHANGED <<os, engine, done, bg, phase, restarts, mutations, ghost, conc,
                   appended, bgs>>

InitNames ==
    /\ Started
    /\ \E S \in SUBSET Stems : listing = [NoListing EXCEPT !.names = S]

NextNames == List

SpecNames == InitNames /\ [][NextNames]_vars

\* ------------------------------------------- logs with arbitrary clocks
\* the clock readings of the records of a log Open is given to replay
ReplayTimestamps == {0, 1, 300}

\* the records Put and Delete write, with any of the clock readings
ReplayRecords ==
    {NewLogEntry(key, value, FALSE, timestamp) :
        key \in Keys, value \in Values, timestamp \in ReplayTimestamps}
    \cup {NewLogEntry(key, <<>>, TRUE, timestamp) :
             key \in Keys, timestamp \in ReplayTimestamps}

\* the directories of one or two segments: one or two records in the
\* first, as many as stay under the rotation threshold, and at most one in
\* the second
ReplayDisks ==
    LET first == {EncodeEntry(a) : a \in ReplayRecords}
                 \cup UNION {{EncodeEntry(a) \o EncodeEntry(b) :
                                b \in {c \in ReplayRecords :
                                         Size(a) + Size(c) < MaxActiveFileSize}} :
                              a \in ReplayRecords}
        second == {<<>>} \cup {EncodeEntry(a) : a \in ReplayRecords}
    IN {Store(EmptyMap, 1, f) : f \in first}
       \cup {Store(Store(EmptyMap, 1, f), 2, g) : f \in first, g \in second}

\* a directory of segments written by an earlier process, before Open
InitReplay ==
    /\ \E d \in ReplayDisks :
          /\ disk = d
          /\ synced = [id \in DOMAIN d |-> Len(d[id])]
    /\ fds = {}
    /\ KeyDir = EmptyMap
    /\ Files = EmptyMap
    /\ CurrentFileId = 0
    /\ ActiveFile = NilFile
    /\ ActiveSize = 0
    /\ writer = NewWriter(NilFile)
    /\ done = FALSE
    /\ bg = "exited"
    /\ phase = "down"
    /\ restarts = 0
    /\ mutations = 0
    /\ last = NoCall
    /\ expect = [k \in Keys |-> Absent]
    /\ clean = FALSE
    /\ durable = [k \in Keys |-> Absent]
    /\ later = [k \in Keys |-> {}]
    /\ Mu = Unlocked
    /\ calls = [t \in Threads |-> Idle]
    /\ commits = <<>>
    /\ appended = 0
    /\ bgs = NoBg
    /\ listing = NoListing

NextReplay == Reopen

SpecReplay == InitReplay /\ [][NextReplay]_vars

\* ------------------------------------------- Open over a torn last record
\* what a crash leaves of one segment: nothing or one whole record of a
\* Put of the first key, then the first bytes of the record of a Put of the
\* second key that was being written
TornDisks ==
    LET puts == {NewLogEntry(key, value, FALSE, timestamp) :
                    key \in Keys, value \in Values, timestamp \in Timestamps}
        whole == {<<>>} \cup {EncodeEntry(a) : a \in {p \in puts : p.Key = <<1>>}}
        tails == UNION {{SubSeq(EncodeEntry(b), 1, n) :
                            n \in {m \in 1..(Size(b) - 1) : m % TearStep = 0}} :
                        b \in {p \in puts : p.Key = <<2>>}}
    IN {Store(EmptyMap, 1, f \o t) : f \in whole, t \in tails}

\* Open has returned over a directory whose segment ends in a torn record
InitTorn ==
    /\ \E d \in TornDisks :
          \E r \in {Open(d, [id \in DOMAIN d |-> Len(d[id])])} :
             /\ disk = r.w.disk
             /\ synced = r.w.synced
             /\ fds = r.w.fds
             /\ KeyDir = r.w.KeyDir
             /\ Files = r.w.Files
             /\ CurrentFileId = r.w.CurrentFileId
             /\ ActiveFile = r.w.ActiveFile
             /\ ActiveSize = r.w.ActiveSize
             /\ writer = r.w.writer
             /\ last = [NoCall EXCEPT !.op = "Open", !.err = r.err, !.how = "Crash"]
             /\ \E v \in {ViewOf(r.w)} :
                   /\ expect = v
                   /\ durable = v
    /\ done = FALSE
    /\ bg = "running"
    /\ phase = "open"
    /\ restarts = 0
    /\ mutations = 0
    /\ clean = FALSE
    /\ later = [k \in Keys |-> {}]
    /\ Mu = Unlocked
    /\ calls = [t \in Threads |-> Idle]
    /\ commits = <<>>
    /\ appended = 0
    /\ bgs = NoBg
    /\ listing = NoListing

NextTorn ==
    \/ \E key \in Keys, value \in Values, timestamp \in Timestamps :
          Put(key, value, timestamp)
    \/ \E key \in Keys : Get(key)
    \/ \E key \in Keys, timestamp \in Timestamps : Delete(key, timestamp)
    \/ Sync
    \/ Close
    \/ Reopen

SpecTorn == InitTorn /\ [][NextTorn]_vars

\* ------------------------------------------------- a damaged segment file
\* the checksum NewLogEntry would store for the fields of e
Checksum(e) ==
    calcCRC(BigEndian(e.timestamp, 8) \o BigEndian(e.keySize, 4)
            \o BigEndian(e.valueSize, 4) \o BoolByte(e.tombstone) \o e.Key \o e.Value)

RECURSIVE ScanIntact(_, _)
\* from pos on, bytes are whole records, each with the checksum of its fields
ScanIntact(bytes, pos) ==
    IF pos = Len(bytes) THEN TRUE
    ELSE With(parseEntry(bytes, pos), LAMBDA p :
            /\ p.err = Nil
            /\ p.entry.crc = Checksum(p.entry)
            /\ ScanIntact(bytes, pos + p.size))

Intact(d) == \A id \in DOMAIN d : ScanIntact(d[id], 0)

\* one bit of a stored byte turned over
FlipBit(b) == IF b % 2 = 0 THEN b + 1 ELSE b - 1

RECURSIVE ByteOfRecord(_, _, _)
\* which byte of its record, counted from 1, the byte at pos of a file of
\* whole records is, the scan standing at start
ByteOfRecord(bytes, pos, start) ==
    With(parseEntry(bytes, start), LAMBDA p :
        IF pos <= start + p.size THEN pos - start
        ELSE ByteOfRecord(bytes, pos, start + p.size))

\* the medium damages one byte of a segment file, the first damage to it:
\* the tombstone flag or a byte of the key or the value of a record
Corrupt ==
    /\ phase \in {"open", "closed"}
    /\ Intact(disk)
    /\ \E id \in DOMAIN disk :
          \E pos \in 1..Len(disk[id]) :
             /\ ByteOfRecord(disk[id], pos, 0) >= logEntryHeaderSize
             /\ disk' = [disk EXCEPT ![id][pos] = FlipBit(@)]
    /\ last' = [NoCall EXCEPT !.op = "Corrupt"]
    /\ UNCHANGED <<synced, fds, engine, done, bg, phase, restarts, mutations, expect,
                   clean, durable, later, conc, appended, listing, bgs>>

NextCorrupt ==
    \/ \E key \in Keys, value \in Values, timestamp \in Timestamps :
          Put(key, value, timestamp)
    \/ \E key \in Keys : Get(key)
    \/ \E key \in Keys, timestamp \in Timestamps : Delete(key, timestamp)
    \/ Close
    \/ Reopen
    \/ Corrupt

SpecCorrupt == Init /\ [][NextCorrupt]_vars

\* -------------------------------------------------------- the properties
\* the bytes of the active segment, written and buffered
ActiveBytes == disk[CurrentFileId] \o writer.buf

\* C1: in a session, every key of the key directory is read back by Get with
\* the value of its latest Put that no Delete followed, across rotations.
C1_GetReturnsLatestPut ==
    phase = "open" =>
        \A k \in DOMAIN KeyDir :
            \E g \in {GetOp(World, k)} : g.err = Nil /\ g.value = expect[k]

\* C1 witness: a Put overwrote, in segment 2, the value the first record of
\* segment 1 gave the same key.
C1_Witness ==
    /\ phase = "open" /\ last.op = "Put" /\ last.err = Nil
    /\ last.key \in DOMAIN KeyDir /\ KeyDir[last.key].FileId = 2
    /\ \E p \in {parseEntry(disk[1], 0)} :
          /\ p.err = Nil
          /\ p.entry.Key = last.key
          /\ ~IsDeleted(p.entry)
          /\ p.entry.Value # last.value

\* C2: after Sync, Close and a fresh Open, Get answers for every key what it
\* answered before Close, and the directory holds exactly the keys it held.
C2_RestartPreservesGet ==
    (phase = "open" /\ last.op = "Open" /\ last.how = "Close" /\ last.clean) =>
        /\ ViewOf(World) = last.view
        /\ DOMAIN KeyDir = {k \in Keys : last.view[k] # Absent}

\* C3: what a successful Sync or a completed tick covered survives a crash:
\* the directory recovered after the crash holds, for every key, the value
\* as of that Sync or tick, or one written after it.
C3_SyncedMutationsSurviveCrash ==
    (last.op = "Open" /\ last.how = "Crash") =>
        /\ phase = "open"
        /\ \A k \in Keys :
              ViewOf(World)[k] \in {last.durable[k]} \cup last.later[k]

\* C4: a Delete of a key that a Put left live succeeds; from then until the
\* next Put of the key it is not in the directory, Get fails with not-found
\* and a further Delete fails with not-found.
C4_DeleteRemoves ==
    phase = "open" =>
        /\ (last.op = "Delete" /\ last.live) =>
              (last.err = Nil /\ expect[last.key] = Absent)
        /\ \A k \in Keys :
              expect[k] = Absent =>
                  /\ k \notin DOMAIN KeyDir
                  /\ IsNotFound(GetOp(World, k).err)
                  /\ \A ts \in Timestamps : IsNotFound(DeleteOp(World, k, ts).err)

\* C4 witness: a Delete of a live key has just returned.
C4_Witness ==
    phase = "open" /\ last.op = "Delete" /\ last.live /\ last.err = Nil

\* C5: a Delete of a key that is not in the directory fails with not-found
\* and changes neither the files, the handles, the buffer, the directory,
\* the tracked size nor the active segment.
C5_DeleteAbsentChangesNothing ==
    [][(last'.op = "Delete" /\ phase = "open" /\ last'.key \notin DOMAIN KeyDir)
          => (IsNotFound(last'.err) /\ UNCHANGED <<os, engine>>)]_vars

\* C5 witness: a Delete failed with not-found in an engine that holds
\* written and buffered bytes.
C5_Witness ==
    /\ phase = "open" /\ last.op = "Delete" /\ IsNotFound(last.err)
    /\ disk[1] # <<>> /\ writer.buf # <<>>

RECURSIVE SegmentRecords(_, _, _)
\* the records of one segment, in the order of their offsets
SegmentRecords(bytes, id, offset) ==
    With(parseEntry(bytes, offset), LAMBDA p :
        IF p.err # Nil THEN <<>>
        ELSE <<[id |-> id, offset |-> offset, size |-> p.size,
                key |-> p.entry.Key, tombstone |-> p.entry.tombstone]>>
             \o SegmentRecords(bytes, id, offset + p.size))

RECURSIVE AllRecords(_, _)
\* the records of the segments of ids, by segment id, then offset
AllRecords(d, ids) ==
    IF ids = {} THEN <<>>
    ELSE LET m == SetMax(ids)
         IN AllRecords(d, ids \ {m}) \o SegmentRecords(d[m], m, 0)

\* the directory the records describe: a key is live when its last record
\* is no tombstone, and its locator is that record's
Replayed(recs) ==
    LET Last(k) == SetMax({i \in 1..Len(recs) : recs[i].key = k})
        live == {k \in {recs[i].key : i \in 1..Len(recs)} : ~recs[Last(k)].tombstone}
    IN [k \in live |-> [FileId |-> recs[Last(k)].id,
                        Offset |-> recs[Last(k)].offset,
                        Size |-> recs[Last(k)].size]]

\* C6: after Open the directory is the replay of all records in the order of
\* segment id, then offset.
C6_OpenReplaysLog ==
    (phase = "open" /\ last.op = "Open") =>
        \E recs \in {AllRecords(disk, DOMAIN disk)} : KeyDir = Replayed(recs)

\* C6 witness: Open read two segments, the second holding the tombstone of a
\* key of the first, and another key is live.
C6_Witness ==
    /\ phase = "open" /\ last.op = "Open" /\ restarts > 0
    /\ KeyDir # EmptyMap
    /\ \E recs \in {AllRecords(disk, DOMAIN disk)} :
          \E i, j \in 1..Len(recs) :
              /\ recs[i].id = 1 /\ ~recs[i].tombstone
              /\ recs[j].id = 2 /\ recs[j].tombstone
              /\ recs[i].key = recs[j].key

RECURSIVE Serial(_, _)
\* key -> value, or Absent, after the first n mutations of `commits` applied
\* one after the other
Serial(log, n) ==
    IF n = 0 THEN [k \in Keys |-> Absent]
    ELSE [Serial(log, n - 1) EXCEPT ![log[n][1]] = log[n][2]]

\* C7: with goroutines calling Put, Get and Delete while the background
\* flusher ticks, every Get answers what the mutations that took effect
\* before its read, applied in the order their lock sections finished, left
\* for its key; that read is not before the Get was called, so a mutation
\* that returned earlier is among them; and whenever no mutation holds the
\* lock the engine answers for every key what that serial order left.
C7_Linearizable ==
    /\ \A t \in Threads :
          (calls[t].pc = "ret" /\ calls[t].op = "Get")
             => /\ calls[t].from <= calls[t].at
                /\ calls[t].got = Serial(commits, calls[t].at)[calls[t].key]
    /\ Mu.writer \notin Threads => ViewOf(World) = Serial(commits, Len(commits))

\* C7 witness: a Get that was called before a mutation took effect has read,
\* after it and after a rotation, a value a Put wrote.
C7_Witness ==
    \E t \in Threads :
       /\ calls[t].pc = "ret" /\ calls[t].op = "Get"
       /\ calls[t].from < calls[t].at
       /\ calls[t].got = <<7>>
       /\ CurrentFileId = 2

\* C8: a successful Put or Delete rotates exactly when the tracked size plus
\* the record size reaches MaxActiveFileSize; after a rotation the record is
\* the first of the new segment, otherwise it follows the bytes the active
\* segment had.
C8_RotationThreshold ==
    (phase = "open" /\ last.op \in {"Put", "Delete"} /\ last.err = Nil) =>
        LET n == Len(last.rec)
        IN IF last.preSize + n >= MaxActiveFileSize
           THEN /\ CurrentFileId = last.preId + 1
                /\ ActiveSize = n
                /\ ActiveBytes = last.rec
                /\ last.op = "Put" =>
                      KeyDir[last.key] =
                          [FileId |-> CurrentFileId, Offset |-> 0, Size |-> n]
           ELSE /\ CurrentFileId = last.preId
                /\ Len(ActiveBytes) = last.preSize + n
                /\ SubSeq(ActiveBytes, last.preSize + 1, last.preSize + n) = last.rec
                /\ last.op = "Put" =>
                      KeyDir[last.key] =
                          [FileId |-> CurrentFileId, Offset |-> last.preSize,
                           Size |-> n]

\* C8 witness: a Put whose record brought the size to exactly the threshold.
C8_Witness ==
    /\ phase = "open" /\ last.op = "Put" /\ last.err = Nil
    /\ last.preSize + Len(last.rec) = MaxActiveFileSize
    /\ last.preSize > 0

RECURSIVE ParsedLen(_, _)
\* where the sequential scan of a segment stops
ParsedLen(bytes, pos) ==
    With(parseEntry(bytes, pos), LAMBDA p :
        IF p.err # Nil THEN pos ELSE ParsedLen(bytes, pos + p.size))

\* some segment ends in a record that is cut short
HasTornTail(d) == \E id \in DOMAIN d : ParsedLen(d[id], 0) < Len(d[id])

\* the directory without the cut-short tails
Trimmed(d) == [id \in DOMAIN d |-> SubSeq(d[id], 1, ParsedLen(d[id], 0))]

\* C9: Open succeeds on a directory with a segment that ends in a cut-short
\* record, and builds the directory it builds without that tail.
C9_TornTailTolerated ==
    (last.op = "Open" /\ HasTornTail(disk)) =>
        /\ last.err = Nil /\ phase = "open"
        /\ \E t \in {Trimmed(disk)} :
              KeyDir = Open(t, [id \in DOMAIN t |-> Len(t[id])]).w.KeyDir

\* C9 witness: Open indexed a record that precedes a cut-short tail.
C9_Witness ==
    /\ phase = "open" /\ last.op = "Open" /\ HasTornTail(disk)
    /\ \E k \in DOMAIN KeyDir :
          ParsedLen(disk[KeyDir[k].FileId], 0) < Len(disk[KeyDir[k].FileId])

\* C10: when Close has returned, with or without an error, every segment
\* handle of the engine is closed.
C10_CloseClosesEveryHandle ==
    last.op = "Close" => \A id \in DOMAIN Files : Files[id] \notin fds

RECURSIVE TotalBytes(_, _)
\* the lengths of the segment files of ids, added up
TotalBytes(d, ids) ==
    IF ids = {} THEN 0
    ELSE LET id == CHOOSE x \in ids : TRUE
         IN Len(d[id]) + TotalBytes(d, ids \ {id})

\* C11: in the session that began on the empty directory, when Sync has
\* returned without error the segment files hold, in total, exactly as many
\* bytes as the records of the successful Put and Delete calls add up to.
C11_FilesHoldEveryRecord ==
    (phase = "open" /\ restarts = 0 /\ last.op = "Sync" /\ last.err = Nil) =>
        TotalBytes(disk, DOMAIN disk) = appended

\* C12: a record whose stored checksum differs from the checksum of its
\* fields is never served: Get of a key whose locator leads to such a record
\* fails, and the directory Open builds has no entry that leads to one.
C12_ChecksumVerified ==
    phase = "open" =>
        \A k \in DOMAIN KeyDir :
            \E r \in {readLogEntry(disk[KeyDir[k].FileId], KeyDir[k].Offset,
                                   KeyDir[k].Size)} :
                (r.err = Nil /\ r.entry.crc # Checksum(r.entry))
                    => /\ GetOp(World, k).err # Nil
                       /\ last.op # "Open"

\* C13: a key whose last mutation is a Put of the empty value is in the
\* directory and Get returns the empty value without error, in the session
\* of the Put and, when Sync and Close succeeded, after the next Open.
C13_EmptyValueIsNotDelete ==
    /\ phase = "open" =>
          \A k \in Keys :
             expect[k] = <<>> =>
                /\ k \in DOMAIN KeyDir
                /\ \E g \in {GetOp(World, k)} : g.err = Nil /\ g.value = <<>>
    /\ (phase = "open" /\ last.op = "Open" /\ last.how = "Close" /\ last.clean) =>
          \A k \in Keys :
             last.view[k] = <<>> =>
                /\ k \in DOMAIN KeyDir
                /\ \E g \in {GetOp(World, k)} : g.err = Nil /\ g.value = <<>>

\* C13 witness: Open, after Sync and Close, read a segment that holds a Put
\* of the empty value for one key and a tombstone for another; the first is
\* live, the second is not.
C13_Witness ==
    /\ phase = "open" /\ last.op = "Open" /\ last.how = "Close" /\ last.clean
    /\ \E k \in DOMAIN KeyDir : last.view[k] = <<>>
    /\ \E recs \in {AllRecords(disk, DOMAIN disk)} :
          \E i \in 1..Len(recs) : recs[i].tombstone /\ recs[i].key \notin DOMAIN KeyDir

\* C14: while no Put or Delete is inside its lock section, every directory
\* entry (k, {s, o, n}) has the bytes o..o+n of the file of segment s
\* written, and they are one whole record of n bytes, no tombstone, with
\* key k.
C14_LocatorsPointAtWrittenRecords ==
    (phase = "open" /\ Mu.writer \notin Threads) =>
        \A k \in DOMAIN KeyDir :
            /\ KeyDir[k].FileId \in DOMAIN disk
            /\ KeyDir[k].Offset + KeyDir[k].Size <= Len(disk[KeyDir[k].FileId])
            /\ \E r \in {readLogEntry(disk[KeyDir[k].FileId], KeyDir[k].Offset,
                                      KeyDir[k].Size)} :
                  /\ r.err = Nil
                  /\ r.entry.Key = k
                  /\ ~r.entry.tombstone
                  /\ Size(r.entry) = KeyDir[k].Size

\* C14 witness: a Delete has left its tombstone in the writer, behind a
\* record of the active segment that the directory holds.
C14_Witness ==
    /\ phase = "open" /\ last.op = "Delete" /\ last.err = Nil
    /\ writer.buf # <<>>
    /\ \E k \in DOMAIN KeyDir :
          /\ KeyDir[k].FileId = CurrentFileId
          /\ KeyDir[k].Offset + KeyDir[k].Size = Len(disk[CurrentFileId])

\* C15: a step that rotates leaves the outgoing segment's file holding what
\* it held followed by the bytes the writer held for it: no byte a Put or
\* Delete handed to the writer is dropped by the rotation.
C15_RotationFlushesBuffer ==
    [][(phase = "open" /\ phase' = "open" /\ restarts' = restarts
        /\ CurrentFileId' = CurrentFileId + 1)
          => disk'[CurrentFileId] = disk[CurrentFileId] \o writer.buf]_vars

\* C16: between operations the tracked active size is the length of the
\* active segment's file plus the number of bytes the writer holds, whether
\* the operations before succeeded or failed.
C16_ActiveSizeTracksBytes ==
    phase = "open" => ActiveSize = Len(disk[CurrentFileId]) + Len(writer.buf)

\* C17: when Open succeeds on a directory of *.log files whose stems are
\* decimal numbers, it replays the files in ascending order of those
\* numbers.
C17_ReplayInAscendingIdOrder ==
    (listing.done /\ listing.opened) =>
        \A i, j \in 1..Len(listing.order) :
            i < j => listing.order[i] <= listing.order[j]

\* C18: whenever the engine is open after a step, its active segment id is
\* the highest id of the files of the directory; and a step of an open
\* engine that changes the active segment id raises it by one, to an id no
\* file of the directory had.
C18_ActiveIdIsMaxId ==
    [][/\ phase' = "open" => CurrentFileId' = SetMax(DOMAIN disk')
       /\ (phase = "open" /\ phase' = "open" /\ CurrentFileId' # CurrentFileId)
             => /\ CurrentFileId' = CurrentFileId + 1
                /\ CurrentFileId' \notin DOMAIN disk]_vars

\* C18 witness: a Put rotated in an engine that Open had started on an
\* existing segment.
C18_Witness ==
    /\ phase = "open" /\ restarts > 0
    /\ last.op = "Put" /\ last.err = Nil
    /\ CurrentFileId = last.preId + 1
    /\ CurrentFileId = SetMax(DOMAIN disk)

\* b begins with a
IsPrefix(a, b) == Len(a) <= Len(b) /\ SubSeq(b, 1, Len(a)) = a

\* C19: in every step the engine takes (a crash is none of them) no segment
\* file disappears, every file keeps the bytes it had as a prefix, only the
\* file of the active segment grows, and an open engine has exactly one
\* handle open for writing, that of its active segment.
C19_OnlyActiveSegmentGrows ==
    [][phase' # "down" =>
          /\ DOMAIN disk \subseteq DOMAIN disk'
          /\ \A id \in DOMAIN disk :
                /\ IsPrefix(disk[id], disk'[id])
                /\ id # CurrentFileId => disk'[id] = disk[id]
          /\ phase' = "open" =>
                /\ ActiveFile' = <<CurrentFileId', "w">>
                /\ {f \in fds' : f[2] = "w"} = {ActiveFile'}]_vars

\* C19 witness: a Put appended a second record to segment 2 while segment 1
\* kept its bytes.
C19_Witness ==
    /\ phase = "open" /\ last.op = "Put" /\ last.err = Nil
    /\ CurrentFileId = 2 /\ last.preId = 2
    /\ disk[1] # <<>>
    /\ Len(disk[2]) > Len(last.rec)

\* the engine as Open returned it, over a directory that held segments
Reopened == phase = "open" /\ last.op = "Open" /\ restarts > 0

\* what Open leaves when it found segments: the segment of the largest id
\* open for append as the active one, its length as the tracked size, and
\* an empty writer on it
ResumesLastSegment ==
    /\ CurrentFileId = SetMax(DOMAIN disk)
    /\ ActiveFile = <<CurrentFileId, "w">>
    /\ ActiveFile \in fds
    /\ ActiveSize = Len(disk[CurrentFileId])
    /\ writer = NewWriter(ActiveFile)

C21_OpenOfEmptyDirectory ==
    (last.op = "Open" /\ restarts = 0) =>
        /\ phase = "open" /\ last.err = Nil
        /\ DOMAIN disk = {1} /\ disk[1] = <<>>
        /\ CurrentFileId = 1
        /\ ActiveFile = <<1, "w">> /\ ActiveFile \in fds
        /\ ActiveSize = 0
        /\ KeyDir = EmptyMap
        /\ DOMAIN Files = {1}
        /\ writer = NewWriter(ActiveFile)
        /\ bg = "running" /\ ~done

\* C21 witness: Open has returned over the empty directory and nothing has
\* been called yet.
C21_Witness ==
    /\ last.op = "Open" /\ restarts = 0 /\ mutations = 0
    /\ phase = "open"
    /\ 1 \in DOMAIN disk

\* C26: a Sync that returns nil has moved the bytes of the writer to the end
\* of the active segment's file and fsynced that file up to its last byte,
\* and leaves the directory, the tracked size and the active id as they were.
C26_SyncFlushesAndFsyncs ==
    [][(last'.op = "Sync" /\ last'.err = Nil) =>
          /\ writer'.buf = <<>>
          /\ disk'[CurrentFileId] = disk[CurrentFileId] \o writer.buf
          /\ synced'[CurrentFileId] = Len(disk'[CurrentFileId])
          /\ KeyDir' = KeyDir
          /\ Files' = Files
          /\ ActiveSize' = ActiveSize
          /\ CurrentFileId' = CurrentFileId
          /\ ActiveFile' = ActiveFile]_vars

\* C26 witness: Sync returned nil after a Delete whose tombstone was still in
\* the writer; the tombstone is now the last record of the file, fsynced.
C26_Witness ==
    /\ phase = "open" /\ last.op = "Sync" /\ last.err = Nil
    /\ writer.buf = <<>>
    /\ synced[CurrentFileId] = Len(disk[CurrentFileId])
    /\ \E recs \in {SegmentRecords(disk[CurrentFileId], CurrentFileId, 0)} :
          /\ Len(recs) >= 2
          /\ recs[Len(recs)].tombstone

\* a step of a call of Get by goroutine t: the call, the read lock, the
\* lookup and read, or the unlock and return
GetStep(t) ==
    /\ calls'[t] # calls[t]
    /\ calls[t].op = "Get" \/ calls'[t].op = "Get"

\* C27: a step of Get, whether Get finds the key or fails, leaves the
\* directory, the segment map, the active id and file, the tracked size, the
\* writer and its bytes, the files and what is fsynced of them, and the open
\* handles as they were, and never makes its goroutine the holder of the
\* exclusive lock.
C27_GetChangesNothing ==
    [][(last'.op = "Get" \/ \E t \in Threads : GetStep(t)) =>
          /\ UNCHANGED <<KeyDir, Files, CurrentFileId, ActiveFile, ActiveSize, writer>>
          /\ UNCHANGED <<disk, synced, fds>>
          /\ \A t \in Threads : GetStep(t) => Mu'.writer # t]_vars

\* C27 witness: one Get has returned a value and another has failed, both
\* still inside the read lock, while a tombstone waits in the writer.
C27_Witness ==
    /\ writer.buf # <<>>
    /\ \E t, u \in Threads :
          /\ calls[t].op = "Get" /\ calls[t].pc = "ret" /\ calls[t].err = Nil
          /\ calls[u].op = "Get" /\ calls[u].pc = "ret" /\ calls[u].err # Nil
          /\ {t, u} \subseteq Mu.readers

RECURSIVE RetimedFrom(_, _)
\* the records of bytes from pos on, each written again with clock reading
\* 0 (and the checksum of that)
RetimedFrom(bytes, pos) ==
    With(parseEntry(bytes, pos), LAMBDA p :
        IF p.err # Nil THEN SubSeq(bytes, pos + 1, Len(bytes))
        ELSE EncodeEntry(NewLogEntry(p.entry.Key, p.entry.Value, p.entry.tombstone, 0))
             \o RetimedFrom(bytes, pos + p.size))

\* the directory d with every timestamp set to 0
Retimed(d) == [id \in DOMAIN d |-> RetimedFrom(d[id], 0)]

\* C28: the directory Open rebuilds from the segments is the one it rebuilds
\* from the same records, in the same places, with every timestamp 0:
\* timestamps, increasing or decreasing, decide nothing.
C28_ReplayIgnoresTimestamps ==
    (phase = "open" /\ last.op = "Open" /\ restarts > 0) =>
        \E twin \in {Open(Retimed(disk), synced)} :
            /\ twin.err = Nil
            /\ KeyDir = twin.w.KeyDir

\* C28 witness: Open replayed a segment whose first two records are Puts of
\* one key, the second with the earlier timestamp, and the directory holds
\* the second.
C28_Witness ==
    /\ phase = "open" /\ last.op = "Open" /\ restarts > 0
    /\ \E p \in {parseEntry(disk[1], 0)} :
          /\ p.err = Nil
          /\ \E q \in {parseEntry(disk[1], p.size)} :
                /\ q.err = Nil
                /\ q.entry.Key = p.entry.Key
                /\ q.entry.Value # p.entry.Value
                /\ ~q.entry.tombstone
                /\ q.entry.timestamp < p.entry.timestamp
                /\ q.entry.Key \in DOMAIN KeyDir
                /\ KeyDir[q.entry.Key] = [FileId |-> 1, Offset |-> p.size, Size |-> q.size]

\* C29: while the engine is open every locator of the directory names a
\* segment the segment map has a handle for, the handle is open, and no Get
\* has returned the error of a missing handle.
C29_LocatorsHaveHandles ==
    phase = "open" =>
        /\ \A k \in DOMAIN KeyDir :
              /\ KeyDir[k].FileId \in DOMAIN Files
              /\ Mu.writer \notin Threads => Files[KeyDir[k].FileId] \in fds
        /\ last.op = "Get" => last.err # "file not found!"
        /\ \A t \in Threads : calls[t].op = "Get" => calls[t].err # "file not found!"

\* C29 witness: after a restart and a rotation the directory holds locators
\* into both segments, and a Get has just read through one of them.
C29_Witness ==
    /\ phase = "open" /\ restarts > 0
    /\ last.op = "Get" /\ last.err = Nil
    /\ {KeyDir[k].FileId : k \in DOMAIN KeyDir} = {1, 2}
    /\ CurrentFileId = 2

\* C30: the engine was opened over a segment that ends in a torn record,
\* records were appended, and Sync and Close returned nil; after the next
\* Open, Get answers for every key what it answered before Close.
C30_AppendsAfterTornTailSurvive ==
    (/\ phase = "open" /\ last.op = "Open" /\ last.how = "Close" /\ last.clean
     /\ appended > 0) =>
        ViewOf(World) = last.view

\* the goroutines, that of the background task among them, that stand
\* between a returned bc.Mu.Lock() and their bc.Mu.Unlock()
InExclusive ==
    {t \in Threads : /\ calls[t].op \in {"Put", "Delete", "Sync", "Close"}
                     /\ calls[t].pc \in {"in", "sealed", "synced", "ret"}}
    \cup (IF bg \in {"tick", "tickflushed", "stop", "stopflushed"} THEN {"bg"} ELSE {})

\* the goroutines that stand between the bc.Mu.RLock() and the
\* bc.Mu.RUnlock() of Get
InShared == {t \in Threads : calls[t].op = "Get" /\ calls[t].pc \in {"in", "ret"}}

\* C22: at most one goroutine is inside an exclusive section (Put, Delete
\* with their rotation, Sync, the flush and closing of Close, a pass of the
\* background task), no Get is inside its shared section while one is, and
\* every step that changes the engine or a file is taken from inside an
\* exclusive section with no Get inside its shared one.
C22_ExclusiveSectionsDoNotOverlap ==
    [][/\ Cardinality(InExclusive') <= 1
       /\ InExclusive' # {} => InShared' = {}
       /\ <<os, engine>>' # <<os, engine>> =>
             /\ Cardinality(InExclusive) = 1
             /\ InShared = {}
       /\ \A t \in Threads :
             (calls[t].op = "Get" /\ calls[t].pc = "in" /\ calls'[t].pc = "ret")
                => t \in InShared /\ InExclusive = {}]_vars

\* C22 witness: two Gets are inside their shared sections at once, one of
\* them having read, after a rotation, while the background task waits for
\* the lock.
C22_Witness ==
    /\ InShared = Threads
    /\ \E t \in Threads : calls[t].pc = "ret" /\ calls[t].err = Nil
    /\ CurrentFileId = 2
    /\ bg \in {"tickwait", "stopwait"}

\* the goroutines whose Close is past bc.syncWg.Wait()
PastJoin ==
    {t \in Threads : calls[t].op = "Close"
                     /\ calls[t].pc \in {"wait", "in", "synced", "ret"}}

C24_CloseReturns ==
    done ~> (bg = "exited" /\ \A t \in Threads : calls[t].op # "Close")

\* C24 witness: Close has returned while another goroutine, which called
\* Put before, still waits for the lock.
C24_Witness ==
    /\ done /\ bg = "exited" /\ phase = "closed"
    /\ \A t \in Threads : calls[t].op # "Close"
    /\ \E t \in Threads : calls[t].op = "Put" /\ calls[t].pc = "wait"

\* C25: from the Lock of a tick to its Unlock nobody else changes the
\* writer or the files: the flush comes first and puts the bytes the writer
\* held at the Lock at the end of the active file, no byte is added between
\* it and the fsync, and the fsync then covers the file to its end, every
\* byte that was buffered when the tick took the lock included.
C25_TickFlushesThenFsyncs ==
    [][/\ bg = "tick" =>
             /\ Mu.writer = "bg"
             /\ CurrentFileId = bgs.id
             /\ Len(disk[CurrentFileId]) + Len(writer.buf) = bgs.mark
             /\ bg' # bg =>
                   /\ bg' = "tickflushed"
                   /\ disk'[CurrentFileId] = disk[CurrentFileId] \o writer.buf
                   /\ synced' = synced
       /\ bg = "tickflushed" =>
             /\ Mu.writer = "bg"
             /\ CurrentFileId = bgs.id
             /\ writer.buf = <<>>
             /\ Len(disk[CurrentFileId]) = bgs.mark
             /\ bg' # bg =>
                   /\ bg' = "running"
                   /\ disk' = disk
                   /\ synced'[CurrentFileId] = bgs.mark
                   /\ Mu'.writer = "none"]_vars

\* C25 witness: a tick has flushed a buffered tombstone and is about to
\* fsync, while a Put waits for the lock.
C25_Witness ==
    /\ bg = "tickflushed"
    /\ synced[CurrentFileId] < Len(disk[CurrentFileId])
    /\ \E recs \in {SegmentRecords(disk[CurrentFileId], CurrentFileId, 0)} :
          Len(recs) > 0 /\ recs[Len(recs)].tombstone
    /\ \E t \in Threads : calls[t].op = "Put" /\ calls[t].pc = "wait"

\* C31: a Put or Delete that returns an error leaves the key directory as
\* it was before the call, and every key the directory held is still read
\* back by Get as it was before the call.
C31_FailedMutationKeepsDirectory ==
    [][(last'.op \in Mutators /\ last'.err # Nil)
          => /\ KeyDir' = KeyDir
             /\ \A k \in DOMAIN KeyDir : ViewOf(World)'[k] = ViewOf(World)[k]]_vars

\* C32: after a Put or Delete that returned the error of a failed rotation,
\* the handle of the active file is open, the writer targets it, the active
\* segment id and the tracked active size describe it, and a Put that needs
\* no rotation succeeds.
C32_FailedRotationLeavesUsableSegment ==
    (phase = "open" /\ last.op \in Mutators /\ last.err = "failed to roll new file")
        => /\ ActiveFile \in fds
           /\ writer.file = ActiveFile
           /\ ActiveFile = <<CurrentFileId, "w">>
           /\ ActiveSize = Len(disk[CurrentFileId]) + Len(writer.buf)
           /\ \A key \in Keys, value \in Values :
                 ~NeedsRoll(World, NewLogEntry(key, value, FALSE, 0))
                    => PutOp(World, key, value, 0).err = Nil

====
